---- MODULE Spec2Model ----
(***************************************************************************)
(* RouteGuard: a model of the route safety evaluator (distance, zone       *)
(* containment, route classifier, alternative-route selector), of the      *)
(* Express handlers that call it, and of the React map components that     *)
(* drive the route / reroute flow.                                         *)
(*                                                                         *)
(* The repository holds several generations of the same program.  They are *)
(* told apart by a letter:                                                 *)
(*   A  src/website/src/Backend/backend.js + src/website/src/Frontend/     *)
(*      MapComponent.js  (/api/route, /api/reroute, reroute modal)         *)
(*   B  src/unnamed/part_004 + src/unnamed/part_000  (/api/route without a *)
(*      classifier, start/end pre-check in the browser)                    *)
(*   D  src/unnamed/part_005 + src/unnamed/part_001  (/route, confirm      *)
(*      dialog, waypoints)                                                 *)
(*   E  src/website/Backend/backend.js + src/unnamed/part_002 (first       *)
(*      component)  (/route with snapping, unsafe-route prompt)            *)
(* The second component of src/unnamed/part_002 appears in the vehicle     *)
(* animation specification, as variant "navE2".                            *)
(*                                                                         *)
(* Numbers.  A coordinate is the decimal text of a JavaScript number (the  *)
(* text JSON carries).  A distance, a double in metres in the source, is   *)
(* kept as the whole number of millimetres floor(1000 * d); for a whole    *)
(* number of metres r, d < r holds exactly when floor(1000 * d) < 1000 * r.*)
(***************************************************************************)
EXTENDS Integers, Sequences, FiniteSets, TLC

VARIABLES variant, arg, ret, ui, calls, osrmLog, hist

vars == <<variant, arg, ret, ui, calls, osrmLog, hist>>

\* ------------------------------------------------------------------ values

\* JavaScript null / undefined for a value that is otherwise a tuple: the
\* empty tuple; a present value x is the one-element tuple <<x>>.
Null == <<>>
Some(x) == <<x>>

\* zone.radius, a whole number of metres, on the scale distances are kept
\* on (millimetres).
Metres(r) == r * 1000

\* ----------------------------------------------------------- sample points
\* Coordinates the inputs are drawn from, as <<lat, lon>> decimal texts.
DelhiCentre == <<"28.6139", "77.209">>
LucknowCentre == <<"26.8467", "80.9462">>
\* haversineDistance to DelhiCentre is exactly 5000 (IEEE binary64).
OnBoundary == <<"28.658866080295933", "77.20900002251535">>
\* 4903.69 m (haversine) from DelhiCentre: inside 5000 m, outside 700 m.
NearDelhi == <<"28.658", "77.209">>
\* 35 km from DelhiCentre: outside every zone of every variant.
FarAway == <<"28.8", "77.5">>
\* The second vertex of the end-to-end scenario, 13 km from DelhiCentre.
ScenarioPoint == <<"28.7", "77.3">>

GeoPoints == {DelhiCentre, LucknowCentre, OnBoundary, NearDelhi, FarAway, ScenarioPoint}

\* A vertex whose latitude is not a number: its distance to every zone
\* centre is NaN under either formula.
NoLatitude == <<"NaN", "77.209">>

\* A point whose latitude of 12 degrees makes sin^2 + cos^2 round to
\* 1.0000000000000002 in binary64, and its antipode.
RoundingPoints == {<<"12", "0">>, <<"-12", "180">>}

\* ---------------------------------------------------------------- distance

\* The double NaN on the millimetre scale.  No distance is negative, so -1
\* is free to stand for it; NaN as a coordinate is the text "NaN".
NaN == -1

\* Mutant of Less: a distance of 0 is not less than the radius.
Less_NotAtCentre(d, r) == d # NaN /\ 0 < d /\ d < r

\* d < r of JavaScript for a distance d: false when d is NaN.
Less(d, r) == d # NaN /\ d < r

\* haversineDistance(lat1, lon1, lat2, lon2) evaluated in binary64 for the
\* pairs of sample points: <<lat1, lon1, lat2, lon2, mm>>.  For <<12, 0>>
\* against <<-12, 180>>, a is 1.0000000000000002 and Math.sqrt(1 - a) is NaN.
HaversineValues ==
  { <<"28.6139", "77.209", "28.6139", "77.209", 0>>,
    <<"28.6139", "77.209", "26.8467", "80.9462", 416992242>>,
    <<"28.6139", "77.209", "28.658866080295933", "77.20900002251535", 5000000>>,
    <<"28.6139", "77.209", "28.658", "77.209", 4903696>>,
    <<"28.6139", "77.209", "28.8", "77.5", 35123648>>,
    <<"28.6139", "77.209", "28.7", "77.3", 13057583>>,
    <<"26.8467", "80.9462", "28.6139", "77.209", 416992242>>,
    <<"26.8467", "80.9462", "26.8467", "80.9462", 0>>,
    <<"26.8467", "80.9462", "28.658866080295933", "77.20900002251535", 419303827>>,
    <<"26.8467", "80.9462", "28.658", "77.209", 419258864>>,
    <<"26.8467", "80.9462", "28.8", "77.5", 402490751>>,
    <<"26.8467", "80.9462", "28.7", "77.3", 413674084>>,
    <<"28.658866080295933", "77.20900002251535", "28.6139", "77.209", 5000000>>,
    <<"28.658866080295933", "77.20900002251535", "26.8467", "80.9462", 419303827>>,
    <<"28.658866080295933", "77.20900002251535", "28.658866080295933", "77.20900002251535", 0>>,
    <<"28.658866080295933", "77.20900002251535", "28.658", "77.209", 96303>>,
    <<"28.658866080295933", "77.20900002251535", "28.8", "77.5", 32425161>>,
    <<"28.658866080295933", "77.20900002251535", "28.7", "77.3", 9986381>>,
    <<"28.658", "77.209", "28.6139", "77.209", 4903696>>,
    <<"28.658", "77.209", "26.8467", "80.9462", 419258864>>,
    <<"28.658", "77.209", "28.658866080295933", "77.20900002251535", 96303>>,
    <<"28.658", "77.209", "28.658", "77.209", 0>>,
    <<"28.658", "77.209", "28.8", "77.5", 32471985>>,
    <<"28.658", "77.209", "28.7", "77.3", 10030889>>,
    <<"28.8", "77.5", "28.6139", "77.209", 35123648>>,
    <<"28.8", "77.5", "26.8467", "80.9462", 402490751>>,
    <<"28.8", "77.5", "28.658866080295933", "77.20900002251535", 32425161>>,
    <<"28.8", "77.5", "28.658", "77.209", 32471985>>,
    <<"28.8", "77.5", "28.8", "77.5", 0>>,
    <<"28.8", "77.5", "28.7", "77.3", 22445397>>,
    <<"28.7", "77.3", "28.6139", "77.209", 13057583>>,
    <<"28.7", "77.3", "26.8467", "80.9462", 413674084>>,
    <<"28.7", "77.3", "28.658866080295933", "77.20900002251535", 9986381>>,
    <<"28.7", "77.3", "28.658", "77.209", 10030889>>,
    <<"28.7", "77.3", "28.8", "77.5", 22445397>>,
    <<"28.7", "77.3", "28.7", "77.3", 0>>,
    <<"NaN", "77.209", "28.6139", "77.209", NaN>>,
    <<"NaN", "77.209", "26.8467", "80.9462", NaN>>,
    <<"12", "0", "12", "0", 0>>,
    <<"12", "0", "-12", "180", NaN>>,
    <<"-12", "180", "12", "0", NaN>>,
    <<"-12", "180", "-12", "180", 0>> }

haversineDistance(lat1, lon1, lat2, lon2) ==
  (CHOOSE t \in HaversineValues :
      t[1] = lat1 /\ t[2] = lon1 /\ t[3] = lat2 /\ t[4] = lon2)[5]

\* distance(lat1, lon1, lat2, lon2), the spherical law of cosines with
\* R = 6378137, evaluated in binary64: <<lat1, lon1, lat2, lon2, mm>>.  The
\* argument of Math.acos is 1.0000000000000002 for <<12, 0>> against itself
\* (NaN); the last rows are the parsed inputs of GET /check against the
\* zone centres.
AcosValues ==
  { <<"28.6139", "77.209", "28.6139", "77.209", 0>>,
    <<"28.6139", "77.209", "26.8467", "80.9462", 417459371>>,
    <<"28.6139", "77.209", "28.658866080295933", "77.20900002251535", 5005601>>,
    <<"28.6139", "77.209", "28.658", "77.209", 4909189>>,
    <<"28.6139", "77.209", "28.8", "77.5", 35162995>>,
    <<"28.6139", "77.209", "28.7", "77.3", 13072210>>,
    <<"26.8467", "80.9462", "28.6139", "77.209", 417459371>>,
    <<"26.8467", "80.9462", "26.8467", "80.9462", 0>>,
    <<"26.8467", "80.9462", "28.658866080295933", "77.20900002251535", 419773545>>,
    <<"26.8467", "80.9462", "28.658", "77.209", 419728531>>,
    <<"26.8467", "80.9462", "28.8", "77.5", 402941634>>,
    <<"26.8467", "80.9462", "28.7", "77.3", 414137495>>,
    <<"28.658866080295933", "77.20900002251535", "28.6139", "77.209", 5005601>>,
    <<"28.658866080295933", "77.20900002251535", "26.8467", "80.9462", 419773545>>,
    <<"28.658866080295933", "77.20900002251535", "28.658866080295933", "77.20900002251535", 0>>,
    <<"28.658866080295933", "77.20900002251535", "28.658", "77.209", 96411>>,
    <<"28.658866080295933", "77.20900002251535", "28.8", "77.5", 32461485>>,
    <<"28.658866080295933", "77.20900002251535", "28.7", "77.3", 9997568>>,
    <<"28.658", "77.209", "28.6139", "77.209", 4909189>>,
    <<"28.658", "77.209", "26.8467", "80.9462", 419728531>>,
    <<"28.658", "77.209", "28.658866080295933", "77.20900002251535", 96411>>,
    <<"28.658", "77.209", "28.658", "77.209", 0>>,
    <<"28.658", "77.209", "28.8", "77.5", 32508361>>,
    <<"28.658", "77.209", "28.7", "77.3", 10042126>>,
    <<"28.8", "77.5", "28.6139", "77.209", 35162995>>,
    <<"28.8", "77.5", "26.8467", "80.9462", 402941634>>,
    <<"28.8", "77.5", "28.658866080295933", "77.20900002251535", 32461485>>,
    <<"28.8", "77.5", "28.658", "77.209", 32508361>>,
    <<"28.8", "77.5", "28.8", "77.5", 0>>,
    <<"28.8", "77.5", "28.7", "77.3", 22470541>>,
    <<"28.7", "77.3", "28.6139", "77.209", 13072210>>,
    <<"28.7", "77.3", "26.8467", "80.9462", 414137495>>,
    <<"28.7", "77.3", "28.658866080295933", "77.20900002251535", 9997568>>,
    <<"28.7", "77.3", "28.658", "77.209", 10042126>>,
    <<"28.7", "77.3", "28.8", "77.5", 22470541>>,
    <<"28.7", "77.3", "28.7", "77.3", 0>>,
    <<"12", "0", "12", "0", NaN>>,
    <<"12", "0", "-12", "180", NaN>>,
    <<"-12", "180", "12", "0", NaN>>,
    <<"-12", "180", "-12", "180", NaN>>,
    <<"28.6139", "437.209", "28.6139", "77.209", 0>>,
    <<"28.6139", "437.209", "26.8467", "80.9462", 417459371>>,
    <<"NaN", "77.209", "28.6139", "77.209", NaN>>,
    <<"NaN", "77.209", "26.8467", "80.9462", NaN>>,
    <<"NaN", "437.209", "28.6139", "77.209", NaN>>,
    <<"NaN", "437.209", "26.8467", "80.9462", NaN>> }

distance(lat1, lon1, lat2, lon2) ==
  (CHOOSE t \in AcosValues :
      t[1] = lat1 /\ t[2] = lon1 /\ t[3] = lat2 /\ t[4] = lon2)[5]

\* ------------------------------------------------------------------- zones

\* Variant A: { name, coordinates: [lat, lon], radius }.
redZonesA ==
  << [name |-> "Zone A (Delhi)", coordinates |-> <<"28.6139", "77.209">>, radius |-> 5000],
     [name |-> "Zone B (Lucknow)", coordinates |-> <<"26.8467", "80.9462">>, radius |-> 4000] >>

\* Variant E: { lat, lon, radius }.
redZonesE ==
  << [lat |-> "28.6139", lon |-> "77.209", radius |-> 700],
     [lat |-> "26.8467", lon |-> "80.9462", radius |-> 500] >>

\* Variant D: { lat, lon, radius }.
redZonesD ==
  << [lat |-> "28.6139", lon |-> "77.209", radius |-> 7000],
     [lat |-> "26.8467", lon |-> "80.9462", radius |-> 5000] >>

\* -------------------------------------------------------------- classifier

\* A route of the routing provider: route.geometry.coordinates is a
\* sequence of [lng, lat].
Route(coordinates) == [geometry |-> [coordinates |-> coordinates]]

\* Mutant of zoneLoopA: the comparison written <= instead of <.
RECURSIVE zoneLoopA_Inclusive(_, _, _)
zoneLoopA_Inclusive(lat, lng, j) ==
  IF j > Len(redZonesA) THEN FALSE
  ELSE IF haversineDistance(lat, lng, redZonesA[j].coordinates[1],
                            redZonesA[j].coordinates[2])
          <= Metres(redZonesA[j].radius)
       THEN TRUE
       ELSE zoneLoopA_Inclusive(lat, lng, j + 1)

\* Variant A, the inner loop of isRouteUnsafe: for (const zone of redZones)
\* from the j-th zone on, for one coordinate.
RECURSIVE zoneLoopA(_, _, _)
zoneLoopA(lat, lng, j) ==
  IF j > Len(redZonesA) THEN FALSE
  ELSE IF Less(haversineDistance(lat, lng, redZonesA[j].coordinates[1],
                                 redZonesA[j].coordinates[2]),
               Metres(redZonesA[j].radius))
       THEN TRUE
       ELSE zoneLoopA(lat, lng, j + 1)

\* Mutant of coordLoopA: "return false" inside the loop body, so that only
\* the first coordinate is looked at.
coordLoopA_FirstOnly(coordinates, i) ==
  IF i > Len(coordinates) THEN FALSE
  ELSE zoneLoopA(coordinates[i][2], coordinates[i][1], 1)

\* Mutant of coordLoopA: the loop stops before the last coordinate.
coordLoopA_SkipsLast(coordinates, i) ==
  \E k \in i..(Len(coordinates) - 1) : zoneLoopA(coordinates[k][2], coordinates[k][1], 1)

\* Variant A, the outer loop of isRouteUnsafe: for (const coord of
\* coordinates) from the i-th coordinate on; [lng, lat] = coord.
RECURSIVE coordLoopA(_, _)
coordLoopA(coordinates, i) ==
  IF i > Len(coordinates) THEN FALSE
  ELSE IF zoneLoopA(coordinates[i][2], coordinates[i][1], 1) THEN TRUE
       ELSE coordLoopA(coordinates, i + 1)

isRouteUnsafe(route) == coordLoopA(route.geometry.coordinates, 1)

\* Variant E: redZones.some(zone => distance(...) < zone.radius).
inRedZone(lat, lon) ==
  \E j \in 1..Len(redZonesE) :
     Less(distance(lat, lon, redZonesE[j].lat, redZonesE[j].lon), Metres(redZonesE[j].radius))

\* Variant E: coordinates.some(([lon, lat]) => inRedZone(lat, lon)).
routeUnsafe(route) ==
  \E i \in 1..Len(route.geometry.coordinates) :
     inRedZone(route.geometry.coordinates[i][2], route.geometry.coordinates[i][1])

\* Variant D: the same two functions over the 7000 m / 5000 m zones.
inRedZoneD(lat, lon) ==
  \E j \in 1..Len(redZonesD) :
     Less(distance(lat, lon, redZonesD[j].lat, redZonesD[j].lon), Metres(redZonesD[j].radius))

routeUnsafeD(route) ==
  \E i \in 1..Len(route.geometry.coordinates) :
     inRedZoneD(route.geometry.coordinates[i][2], route.geometry.coordinates[i][1])

\* ------------------------------------------------------ routing provider
\* What fetch(osrmUrl) followed by response.json() gives the handler: the
\* parsed body [code, message, hasRoutes, routes], or a thrown error.
\* message is "" when the body has none.
OsrmData(code, hasRoutes, routes) ==
  [kind |-> "data", code |-> code, message |-> "",
   hasRoutes |-> hasRoutes, routes |-> routes]

OsrmThrow ==
  [kind |-> "throw", code |-> "", message |-> "", hasRoutes |-> FALSE, routes |-> <<>>]

\* The query a handler sends to the provider: the coordinates of the URL
\* and whether the URL carries alternatives=true.
OsrmQuery(v, ep, coords, alternatives) ==
  [v |-> v, ep |-> ep, coords |-> coords, alternatives |-> alternatives]

\* A response of a handler: the HTTP status, the JSON body, and ran, the
\* indexes of data.routes the classifier was called on, in call order.
Response(http, body, ran) == [http |-> http, body |-> body, ran |-> ran]

NoBody ==
  [status |-> "", message |-> "", error |-> "", hasRoute |-> FALSE, route |-> <<>>,
   unsafe |-> FALSE, inRedZone |-> Null]

\* Body { status, message } / { status, route } of variant A.
BodyStatus(status) == [NoBody EXCEPT !.status = status]
BodyStatusMessage(status, message) ==
  [NoBody EXCEPT !.status = status, !.message = message]
BodyStatusRoute(status, data) ==
  [NoBody EXCEPT !.status = status, !.hasRoute = TRUE, !.route = data.routes]
\* Body { error } of variants B, D, E.
BodyError(error) == [NoBody EXCEPT !.error = error]
\* Body { route, unsafe } of variant D, and of variant E before its message
\* is added; body data of variant B.
BodyRoute(data, unsafe) ==
  [NoBody EXCEPT !.hasRoute = data.hasRoutes, !.route = data.routes, !.unsafe = unsafe]

\* --------------------------------------------------------------- handlers

\* Mutant of apiRoute: the test data.routes.length === 0 left out, so that
\* data.routes[0].geometry throws and the catch block answers 500.
apiRoute_NoEmptyCheck(osrm) ==
  IF osrm.kind = "throw" THEN Response(500, BodyStatusMessage("error", "Failed to fetch route"), <<>>)
  ELSE IF osrm.code # "Ok" \/ ~osrm.hasRoutes
       THEN Response(400, BodyStatusMessage("error", "Route not found"), <<>>)
       ELSE IF Len(osrm.routes) = 0
            THEN Response(500, BodyStatusMessage("error", "Failed to fetch route"), <<>>)
            ELSE IF isRouteUnsafe(osrm.routes[1])
                 THEN Response(200, BodyStatusRoute("unsafe", osrm), <<1>>)
                 ELSE Response(200, BodyStatusRoute("safe", osrm), <<1>>)

\* Mutant of apiRoute: the catch block answers res.json({}), a 200 without
\* a status, instead of the 500 error body.
apiRoute_SilentCatch(osrm) ==
  IF osrm.kind = "throw" THEN Response(200, NoBody, <<>>)
  ELSE IF osrm.code # "Ok" \/ ~osrm.hasRoutes \/ Len(osrm.routes) = 0
       THEN Response(400, BodyStatusMessage("error", "Route not found"), <<>>)
       ELSE IF isRouteUnsafe(osrm.routes[1])
            THEN Response(200, BodyStatusRoute("unsafe", osrm), <<1>>)
            ELSE Response(200, BodyStatusRoute("safe", osrm), <<1>>)

\* Mutant of apiRoute: the verdict is taken over every route of the
\* provider's answer instead of data.routes[0].
apiRoute_ClassifiesAll(osrm) ==
  IF osrm.kind = "throw" THEN Response(500, BodyStatusMessage("error", "Failed to fetch route"), <<>>)
  ELSE IF osrm.code # "Ok" \/ ~osrm.hasRoutes \/ Len(osrm.routes) = 0
       THEN Response(400, BodyStatusMessage("error", "Route not found"), <<>>)
       ELSE IF \E k \in 1..Len(osrm.routes) : isRouteUnsafe(osrm.routes[k])
            THEN Response(200, BodyStatusRoute("unsafe", osrm), [k \in 1..Len(osrm.routes) |-> k])
            ELSE Response(200, BodyStatusRoute("safe", osrm), [k \in 1..Len(osrm.routes) |-> k])

\* Variant A, GET /api/route.
apiRoute(osrm) ==
  IF osrm.kind = "throw" THEN Response(500, BodyStatusMessage("error", "Failed to fetch route"), <<>>)
  ELSE IF osrm.code # "Ok" \/ ~osrm.hasRoutes \/ Len(osrm.routes) = 0
       THEN Response(400, BodyStatusMessage("error", "Route not found"), <<>>)
       ELSE IF isRouteUnsafe(osrm.routes[1])
            THEN Response(200, BodyStatusRoute("unsafe", osrm), <<1>>)
            ELSE Response(200, BodyStatusRoute("safe", osrm), <<1>>)

\* Mutant of findSafe: the last safe candidate instead of the first.
findSafe_Last(routes, i) ==
  LET safe == {k \in i..Len(routes) : ~isRouteUnsafe(routes[k])}
  IN  IF safe = {} THEN 0 ELSE CHOOSE k \in safe : \A m \in safe : m <= k

\* Mutant of findSafe: when no candidate is safe, the first one is taken.
findSafe_Fallback(routes, i) ==
  LET safe == {k \in i..Len(routes) : ~isRouteUnsafe(routes[k])}
  IN  IF safe = {} THEN 1 ELSE CHOOSE k \in safe : \A m \in safe : k <= m

\* data.routes.find(route => !isRouteUnsafe(route)) from the i-th route on:
\* the index found, or 0 (undefined).
RECURSIVE findSafe(_, _)
findSafe(routes, i) ==
  IF i > Len(routes) THEN 0
  ELSE IF ~isRouteUnsafe(routes[i]) THEN i
       ELSE findSafe(routes, i + 1)

\* The indexes find called its predicate on.
findRan(routes) ==
  LET k == findSafe(routes, 1)
  IN  [i \in 1..(IF k = 0 THEN Len(routes) ELSE k) |-> i]

\* Variant A, GET /api/reroute.
apiReroute(osrm) ==
  IF osrm.kind = "throw" THEN Response(500, BodyStatusMessage("error", "Failed to fetch reroute"), <<>>)
  ELSE IF osrm.code # "Ok" \/ ~osrm.hasRoutes \/ Len(osrm.routes) = 0
       THEN Response(400, BodyStatusMessage("error", "No routes found"), <<>>)
       ELSE LET safeRoute == findSafe(osrm.routes, 1)
            IN  IF safeRoute # 0
                THEN Response(200,
                       BodyStatusRoute("safe", [osrm EXCEPT !.routes = <<osrm.routes[safeRoute]>>]),
                       findRan(osrm.routes))
                ELSE Response(200, BodyStatus("no_safe_alternatives_found"),
                       findRan(osrm.routes))

\* Variant B, GET /api/route: no classifier; the provider's body is passed
\* on, and with a code other than "Ok" the error is data.message ||
\* "No route found.".
apiRouteB(osrm) ==
  IF osrm.kind = "throw"
  THEN Response(500, BodyError("Failed to fetch route from the routing service."), <<>>)
  ELSE IF osrm.code # "Ok"
       THEN Response(400, BodyError(IF osrm.message # "" THEN osrm.message
                                    ELSE "No route found."), <<>>)
       ELSE Response(200, BodyRoute(osrm, FALSE), <<>>)

\* Variant D, GET /route.
routeD(osrm) ==
  IF osrm.kind = "throw"
  THEN Response(500, BodyError("Failed to fetch route from OSRM server."), <<>>)
  ELSE IF ~osrm.hasRoutes \/ Len(osrm.routes) = 0
       THEN Response(400, BodyError("No route found"), <<>>)
       ELSE Response(200, BodyRoute(osrm, routeUnsafeD(osrm.routes[1])), <<1>>)

\* Variant E, GET /route, from the provider's answer on.  The 200 body is
\* { route, unsafe, message }; the message is kept without the sign that
\* precedes it in the source.
routeE(osrm) ==
  IF osrm.kind = "throw" THEN Response(500, BodyError("Failed to process route."), <<>>)
  ELSE IF ~osrm.hasRoutes \/ Len(osrm.routes) = 0
       THEN Response(404, BodyError("No route found"), <<>>)
       ELSE LET unsafe == routeUnsafe(osrm.routes[1])
            IN  Response(200,
                  [BodyRoute(osrm, unsafe) EXCEPT
                     !.message = IF unsafe THEN "This route passes through a red zone."
                                 ELSE "Safe route."],
                  <<1>>)

\* A value of the query string as <<number, rest>>: the longest prefix that
\* reads as a decimal number, and what follows it.  <<"", "">> is a
\* parameter that is missing or empty.
\* parseFloat(text): the number the prefix denotes, NaN when there is none;
\* what follows the prefix is ignored.
parseFloat(text) == IF text[1] = "" THEN "NaN" ELSE text[1]

\* Variant E, GET /check.
checkE(lat, lon) ==
  IF lat = <<"", "">> \/ lon = <<"", "">>
  THEN Response(400, BodyError("Missing lat/lon"), <<>>)
  ELSE Response(200,
         [NoBody EXCEPT !.inRedZone = Some(inRedZone(parseFloat(lat), parseFloat(lon)))],
         <<>>)

\* The point-snapping service's answer for [lon, lat]: "ok" with a road
\* position, "bad" (code not Ok or no waypoints), or a thrown error.
SnapOutcomes == {"ok", "bad", "throw"}

\* The road position the snapping service reports for a point.
nearestLocation(lonlat) ==
  IF lonlat = <<DelhiCentre[2], DelhiCentre[1]>> THEN <<NearDelhi[2], NearDelhi[1]>>
  ELSE lonlat

\* Mutant of snapToRoad: no fallback to [lon, lat], so that a failed
\* snapping resolves to undefined coordinates.
snapToRoad_NoFallback(lonlat, outcome) ==
  IF outcome = "ok" THEN nearestLocation(lonlat) ELSE <<"undefined", "undefined">>

\* snapToRoad(lon, lat): data.waypoints[0].location, or [lon, lat].
snapToRoad(lonlat, outcome) ==
  IF outcome = "ok" THEN nearestLocation(lonlat) ELSE lonlat

\* ------------------------------------------------------------------ bounds

\* Longest route polyline the classifier is applied to.
MaxRouteLen == 2
\* Most candidate routes in one provider answer.
MaxCandidates == 3
\* Most requests the browser issues in one run.
MaxRequests == 2
\* Most /alerts requests in one run of the server process.
MaxAlertRequests == 3

SeqsUpTo(S, n) == UNION {[1..k -> S] : k \in 0..n}

\* [lng, lat] of a <<lat, lon>> sample point, the order of the provider.
LngLat(p) == <<p[2], p[1]>>

\* ------------------------------------------------------------------ calls

NoResponse == Response(0, NoBody, <<>>)
NoQuery == OsrmQuery("", "", <<>>, FALSE)

\* One HTTP request of the browser (or of a test client) to a handler:
\*   v, ep, coords, avoid   the variant, the path and the query string
\*   kind, wps              the caller, and the number of waypoints its
\*                          continuation closed over
\*   stage                  "sent"; "snapping" (variant E: the handler waits
\*                          for its nearest-road requests); "queried" (the
\*                          handler waits for the provider); "answered"
\*   osrm, query, res       the provider's answer, the provider query made
\*                          (queried = FALSE: none) and the handler's response
\*   sends                  the number of res.json(...) calls the handler made
\*   open                   the browser still waits for the response
\*   after                  history: the flow state the request was issued in
Call(id, v, ep, coords, avoid, kind, wps) ==
  [id |-> id, v |-> v, ep |-> ep, coords |-> coords, avoid |-> avoid,
   kind |-> kind, wps |-> wps, stage |-> "sent",
   osrm |-> OsrmThrow, queried |-> FALSE, query |-> NoQuery, res |-> NoResponse,
   sends |-> 0, open |-> TRUE,
   after |-> [state |-> "Idle", coords |-> <<>>]]

\* The calls without the i-th.
RemoveAt(s, i) == [k \in 1..(Len(s) - 1) |-> IF k < i THEN s[k] ELSE s[k + 1]]

\* The handler has sent its query to the provider and waits at await fetch.
Queried(c, query) == [c EXCEPT !.stage = "queried", !.queried = TRUE, !.query = query]

\* The provider's answer has come and the handler has sent its response.
Answered(c, osrm, query, res) ==
  [c EXCEPT !.stage = "answered", !.osrm = osrm, !.queried = TRUE,
            !.query = query, !.res = res, !.sends = @ + 1]

\* A handler that answers before it queries the provider.
AnsweredEarly(c, res) == [c EXCEPT !.stage = "answered", !.res = res, !.sends = @ + 1]

\* Routes the provider's answers are made of: through the Delhi centre
\* (inside a zone in every variant), through NearDelhi (inside the 5000 m
\* and 7000 m zones only), and two that stay outside the 5000 m zone.
rDelhi == Route(<<LngLat(FarAway), LngLat(DelhiCentre)>>)
rNear == Route(<<LngLat(NearDelhi), LngLat(FarAway)>>)
rFar == Route(<<LngLat(FarAway), LngLat(FarAway)>>)
rEdge == Route(<<LngLat(OnBoundary), LngLat(FarAway)>>)

\* The fifth route has a vertex without a latitude (a coordinate pair the provider
\* sent short, or with a text in place of the number).
ServerRoutes ==
  {rDelhi, rNear, rFar, rEdge, Route(<<LngLat(NoLatitude), LngLat(FarAway)>>)}

\* The provider's possible answers to one query.  For the handler runs
\* (variant "server") every list of up to MaxCandidates routes under either
\* code, with or without a routes field; for the browser runs a short list.
\* A body with code "NoRoute" comes with or without a message.
ProviderOutcomes(alternatives) ==
  IF variant = "server"
  THEN {OsrmThrow}
       \cup {OsrmData(code, TRUE, rs) :
               code \in {"Ok", "NoRoute"}, rs \in SeqsUpTo(ServerRoutes, MaxCandidates)}
       \cup {OsrmData(code, FALSE, <<>>) : code \in {"Ok", "NoRoute"}}
       \cup {[OsrmData("NoRoute", FALSE, <<>>)
                EXCEPT !.message = "Impossible route between points"]}
  ELSE {OsrmThrow, OsrmData("NoRoute", FALSE, <<>>),
        [OsrmData("NoRoute", FALSE, <<>>)
           EXCEPT !.message = "Impossible route between points"],
        OsrmData("Ok", TRUE, <<rDelhi>>), OsrmData("Ok", TRUE, <<rFar>>)}
       \cup (IF alternatives
             THEN {OsrmData("Ok", TRUE, <<rDelhi, rFar>>),
                   OsrmData("Ok", TRUE, <<rDelhi, rNear>>)}
             ELSE {})

\* ------------------------------------------------------- handler actions

\* Each handler that queries the provider takes two steps: up to its
\* await fetch(osrmUrl) the query is sent; from the provider's answer on
\* the response is made.  Other handlers and the browser run in between.

\* Variant A, app.get("/api/route"): one provider query, no alternatives.
HandleApiRoute(i) ==
  /\ calls[i].v = "A" /\ calls[i].ep = "/api/route"
  /\ \/ /\ calls[i].stage = "sent"
        /\ calls' = [calls EXCEPT ![i] =
                       Queried(@, OsrmQuery("A", "/api/route", calls[i].coords, FALSE))]
        /\ osrmLog' = osrmLog + 1
     \/ /\ calls[i].stage = "queried"
        /\ \E osrm \in ProviderOutcomes(FALSE) :
             calls' = [calls EXCEPT ![i] = Answered(@, osrm, calls[i].query, apiRoute(osrm))]
        /\ UNCHANGED osrmLog
  /\ UNCHANGED <<variant, arg, ret, ui, hist>>

\* Variant A, app.get("/api/reroute"): one provider query, alternatives=true.
HandleApiReroute(i) ==
  /\ calls[i].v = "A" /\ calls[i].ep = "/api/reroute"
  /\ \/ /\ calls[i].stage = "sent"
        /\ calls' = [calls EXCEPT ![i] =
                       Queried(@, OsrmQuery("A", "/api/reroute", calls[i].coords, TRUE))]
        /\ osrmLog' = osrmLog + 1
     \/ /\ calls[i].stage = "queried"
        /\ \E osrm \in ProviderOutcomes(TRUE) :
             calls' = [calls EXCEPT ![i] = Answered(@, osrm, calls[i].query, apiReroute(osrm))]
        /\ UNCHANGED osrmLog
  /\ UNCHANGED <<variant, arg, ret, ui, hist>>

\* Variant B, app.get("/api/route"): 400 without a query when start or end
\* is missing.
HandleApiRouteB(i) ==
  /\ calls[i].v = "B" /\ calls[i].ep = "/api/route"
  /\ \/ /\ calls[i].stage = "sent"
        /\ IF Len(calls[i].coords) < 2
           THEN /\ calls' = [calls EXCEPT ![i] = AnsweredEarly(@,
                               Response(400, BodyError("Start and End parameters are required."), <<>>))]
                /\ UNCHANGED osrmLog
           ELSE /\ calls' = [calls EXCEPT ![i] =
                               Queried(@, OsrmQuery("B", "/api/route", calls[i].coords, FALSE))]
                /\ osrmLog' = osrmLog + 1
     \/ /\ calls[i].stage = "queried"
        /\ \E osrm \in ProviderOutcomes(FALSE) :
             calls' = [calls EXCEPT ![i] = Answered(@, osrm, calls[i].query, apiRouteB(osrm))]
        /\ UNCHANGED osrmLog
  /\ UNCHANGED <<variant, arg, ret, ui, hist>>

\* Variant D, app.get("/route"): 400 without a query when coords is missing.
HandleRouteD(i) ==
  /\ calls[i].v = "D" /\ calls[i].ep = "/route"
  /\ \/ /\ calls[i].stage = "sent"
        /\ IF Len(calls[i].coords) = 0
           THEN /\ calls' = [calls EXCEPT ![i] = AnsweredEarly(@,
                               Response(400, BodyError("Coordinates are missing"), <<>>))]
                /\ UNCHANGED osrmLog
           ELSE /\ calls' = [calls EXCEPT ![i] =
                               Queried(@, OsrmQuery("D", "/route", calls[i].coords, FALSE))]
                /\ osrmLog' = osrmLog + 1
     \/ /\ calls[i].stage = "queried"
        /\ \E osrm \in ProviderOutcomes(FALSE) :
             calls' = [calls EXCEPT ![i] = Answered(@, osrm, calls[i].query, routeD(osrm))]
        /\ UNCHANGED osrmLog
  /\ UNCHANGED <<variant, arg, ret, ui, hist>>

\* Variant E, app.get("/route"): 400 when coords is missing; else three
\* steps.  Up to await Promise.all(rawPoints.map(snapToRoad)) a nearest-road
\* request is sent for every raw point; when all of them have returned the
\* provider is queried once with the snapped points; from its answer on the
\* response is made.  avoidRedZones only logs a warning: the URL is the same.
\* A handler whose browser has given up (open = FALSE) goes on all the same:
\* it queries the provider, and its response then goes nowhere.
HandleRouteE(i) ==
  /\ calls[i].v = "E" /\ calls[i].ep = "/route"
  /\ \/ /\ calls[i].stage = "sent"
        /\ calls' = [calls EXCEPT ![i] =
                       IF Len(calls[i].coords) = 0
                       THEN AnsweredEarly(@,
                              Response(400, BodyError("Coordinates are missing"), <<>>))
                       ELSE [@ EXCEPT !.stage = "snapping"]]
        /\ UNCHANGED osrmLog
     \/ /\ calls[i].stage = "snapping"
        /\ \E snaps \in [1..Len(calls[i].coords) -> SnapOutcomes] :
             LET snappedPoints == [k \in 1..Len(calls[i].coords) |->
                                     snapToRoad(calls[i].coords[k], snaps[k])]
             IN  calls' = IF calls[i].open
                          THEN [calls EXCEPT ![i] =
                                  Queried(@, OsrmQuery("E", "/route", snappedPoints, FALSE))]
                          ELSE RemoveAt(calls, i)
        /\ osrmLog' = osrmLog + 1
     \/ /\ calls[i].stage = "queried"
        /\ \E osrm \in ProviderOutcomes(FALSE) :
             calls' = [calls EXCEPT ![i] = Answered(@, osrm, calls[i].query, routeE(osrm))]
        /\ UNCHANGED osrmLog
  /\ UNCHANGED <<variant, arg, ret, ui, hist>>

\* Variant E, app.get("/check"): coords holds the query's <<lat, lon>>.
HandleCheckE(i) ==
  /\ calls[i].stage = "sent" /\ calls[i].v = "E" /\ calls[i].ep = "/check"
  /\ calls' = [calls EXCEPT ![i] = AnsweredEarly(@, checkE(calls[i].coords[1], calls[i].coords[2]))]
  /\ UNCHANGED <<variant, arg, ret, ui, osrmLog, hist>>

ServerHandle ==
  \E i \in 1..Len(calls) :
     \/ HandleCheckE(i)
     \/ HandleApiRoute(i)
     \/ HandleApiReroute(i)
     \/ HandleApiRouteB(i)
     \/ HandleRouteD(i)
     \/ HandleRouteE(i)

\* ------------------------------------------------------------- histories
\* History kept for stating properties; the program does not read it.
\*   issued       requests issued so far; the id of the latest one
\*   shownFrom    id of the request whose response set the displayed route
\*   flow         the state of the user-facing flow of section 4.4, and the
\*                coordinates of the request that put it there
\*   alert        the text of the last alert()
NoHist ==
  [issued |-> 0, shownFrom |-> 0,
   flow |-> [state |-> "Idle", coords |-> <<>>], alert |-> ""]

NoUi == [none |-> TRUE]

\* ------------------------------------------- specification: the classifier

RouteInputs ==
  {Route(c) : c \in SeqsUpTo({LngLat(p) : p \in GeoPoints \cup {NoLatitude}}, MaxRouteLen)}

\* The values returned so far; reversed holds those for the reversed route.
NoRet ==
  [isRouteUnsafe |-> Null, routeUnsafe |-> Null, routeUnsafeD |-> Null, reversed |-> Null]

\* The same polyline traversed from its last vertex to its first.
Reverse(route) ==
  LET cs == route.geometry.coordinates
  IN  Route([k \in 1..Len(cs) |-> cs[Len(cs) + 1 - k]])

InitClassify ==
  /\ variant = "classify"
  /\ arg \in RouteInputs
  /\ ret = NoRet
  /\ ui = NoUi /\ calls = <<>> /\ osrmLog = 0 /\ hist = NoHist

CallIsRouteUnsafe ==
  /\ variant = "classify" /\ ret.isRouteUnsafe = Null
  /\ ret' = [ret EXCEPT !.isRouteUnsafe = Some(isRouteUnsafe(arg))]
  /\ UNCHANGED <<variant, arg, ui, calls, osrmLog, hist>>

CallRouteUnsafe ==
  /\ variant = "classify" /\ ret.routeUnsafe = Null
  /\ ret' = [ret EXCEPT !.routeUnsafe = Some(routeUnsafe(arg))]
  /\ UNCHANGED <<variant, arg, ui, calls, osrmLog, hist>>

CallRouteUnsafeD ==
  /\ variant = "classify" /\ ret.routeUnsafeD = Null
  /\ ret' = [ret EXCEPT !.routeUnsafeD = Some(routeUnsafeD(arg))]
  /\ UNCHANGED <<variant, arg, ui, calls, osrmLog, hist>>

\* The three classifiers called on the reversed route.
CallOnReversed ==
  /\ variant = "classify" /\ ret.reversed = Null
  /\ ret' = [ret EXCEPT !.reversed =
                Some([isRouteUnsafe |-> isRouteUnsafe(Reverse(arg)),
                      routeUnsafe |-> routeUnsafe(Reverse(arg)),
                      routeUnsafeD |-> routeUnsafeD(Reverse(arg))])]
  /\ UNCHANGED <<variant, arg, ui, calls, osrmLog, hist>>

NextClassify == CallIsRouteUnsafe \/ CallRouteUnsafe \/ CallRouteUnsafeD \/ CallOnReversed

SpecClassify == InitClassify /\ [][NextClassify]_vars

\* --------------------------------------------- specification: the handlers

\* The requests a client sends: each handler with start and end, and the
\* handlers that check for it without coordinates; /check with a latitude
\* and a longitude that are well-formed, followed by letters, only letters,
\* missing, or (the longitude 77.209 + 360) out of range.
ServerRequests ==
  LET se == <<LngLat(DelhiCentre), LngLat(LucknowCentre)>>
  IN  { Call(1, "E", "/check", <<lat, lon>>, FALSE, "client", 0) :
          lat \in {<<"28.6139", "">>, <<"28.6139", "abc">>, <<"", "abc">>, <<"", "">>},
          lon \in {<<"77.209", "">>, <<"437.209", "">>, <<"", "">>} }
      \cup
      { Call(1, "A", "/api/route", se, FALSE, "client", 0),
        Call(1, "A", "/api/reroute", se, FALSE, "client", 0),
        Call(1, "B", "/api/route", se, FALSE, "client", 0),
        Call(1, "B", "/api/route", <<>>, FALSE, "client", 0),
        Call(1, "D", "/route", se, FALSE, "client", 0),
        Call(1, "D", "/route", <<>>, FALSE, "client", 0),
        Call(1, "E", "/route", se, FALSE, "client", 0),
        Call(1, "E", "/route", se, TRUE, "client", 0),
        Call(1, "E", "/route", <<>>, FALSE, "client", 0) }

InitServer ==
  /\ variant = "server"
  /\ arg = Null /\ ret = NoRet
  /\ ui = NoUi /\ calls = <<>> /\ osrmLog = 0 /\ hist = NoHist

ClientRequest ==
  /\ variant = "server" /\ calls = <<>>
  /\ \E c \in ServerRequests : calls' = <<c>>
  /\ hist' = [hist EXCEPT !.issued = 1]
  /\ UNCHANGED <<variant, arg, ret, ui, osrmLog>>

NextServer == ClientRequest \/ ServerHandle

SpecServer == InitServer /\ [][NextServer]_vars

\* ------------------------------------------------------------- properties

\* Zone containment for the vertex [lng, lat] and the j-th zone of a
\* variant: distance(point, zone centre) < zone.radius, the comparison of
\* the source, which is false for a distance that is NaN.
ContainedA(c, j) ==
  Less(haversineDistance(c[2], c[1], redZonesA[j].coordinates[1],
                         redZonesA[j].coordinates[2]),
       Metres(redZonesA[j].radius))
ContainedE(c, j) ==
  Less(distance(c[2], c[1], redZonesE[j].lat, redZonesE[j].lon), Metres(redZonesE[j].radius))
ContainedD(c, j) ==
  Less(distance(c[2], c[1], redZonesD[j].lat, redZonesD[j].lon), Metres(redZonesD[j].radius))

NoVertexContainedA(route) ==
  \A i \in 1..Len(route.geometry.coordinates) : \A j \in 1..Len(redZonesA) :
     ~ContainedA(route.geometry.coordinates[i], j)
NoVertexContainedE(route) ==
  \A i \in 1..Len(route.geometry.coordinates) : \A j \in 1..Len(redZonesE) :
     ~ContainedE(route.geometry.coordinates[i], j)
NoVertexContainedD(route) ==
  \A i \in 1..Len(route.geometry.coordinates) : \A j \in 1..Len(redZonesD) :
     ~ContainedD(route.geometry.coordinates[i], j)

\* C1: each classifier (isRouteUnsafe of variant A, routeUnsafe of variants
\* E and D) reports the route safe (returns false) if and only if no vertex
\* of the polyline is contained in any zone of its zone set.
C1_SafeIffNoVertexContained ==
  /\ ret.isRouteUnsafe # Null =>
       (ret.isRouteUnsafe = Some(FALSE) <=> NoVertexContainedA(arg))
  /\ ret.routeUnsafe # Null =>
       (ret.routeUnsafe = Some(FALSE) <=> NoVertexContainedE(arg))
  /\ ret.routeUnsafeD # Null =>
       (ret.routeUnsafeD = Some(FALSE) <=> NoVertexContainedD(arg))

\* C1 witness: a two-vertex route whose first vertex is in no zone (its
\* latitude is not a number, so every distance from it is NaN) and whose
\* last vertex is inside one has been reported unsafe by the classifiers
\* of variants A and E.
C1_Witness ==
  /\ Len(arg.geometry.coordinates) = 2
  /\ arg.geometry.coordinates[1] = LngLat(NoLatitude)
  /\ \A j \in 1..Len(redZonesA) : ~ContainedA(arg.geometry.coordinates[1], j)
  /\ \E j \in 1..Len(redZonesA) : ContainedA(arg.geometry.coordinates[2], j)
  /\ \E j \in 1..Len(redZonesE) : ContainedE(arg.geometry.coordinates[2], j)
  /\ ret.isRouteUnsafe = Some(TRUE)
  /\ ret.routeUnsafe = Some(TRUE)

\* C2: containment is strict.  A route that has a vertex at distance exactly
\* zone.radius from a zone centre, and no vertex nearer than the radius to
\* any centre, is reported safe; and a one-vertex route is reported unsafe
\* exactly when its vertex is nearer than some zone's radius to its centre.
\* A vertex whose distance is NaN is nearer to no centre than any radius.
C2_StrictBoundary ==
  LET cs == arg.geometry.coordinates
  IN  /\ ( /\ ret.isRouteUnsafe # Null
           /\ \E i \in 1..Len(cs) : \E j \in 1..Len(redZonesA) :
                haversineDistance(cs[i][2], cs[i][1], redZonesA[j].coordinates[1],
                                  redZonesA[j].coordinates[2])
                   = Metres(redZonesA[j].radius)
           /\ \A i \in 1..Len(cs) : \A j \in 1..Len(redZonesA) :
                ~ContainedA(cs[i], j) )
         => ret.isRouteUnsafe = Some(FALSE)
      /\ (ret.isRouteUnsafe # Null /\ Len(cs) = 1) =>
            (ret.isRouteUnsafe = Some(TRUE) <=>
               \E j \in 1..Len(redZonesA) : ContainedA(cs[1], j))
      /\ ( /\ ret.routeUnsafe # Null
           /\ \A i \in 1..Len(cs) : \A j \in 1..Len(redZonesE) :
                ~ContainedE(cs[i], j) )
         => ret.routeUnsafe = Some(FALSE)
      /\ (ret.routeUnsafe # Null /\ Len(cs) = 1) =>
            (ret.routeUnsafe = Some(TRUE) <=>
               \E j \in 1..Len(redZonesE) : ContainedE(cs[1], j))

\* C2 witness: the route [FarAway, OnBoundary], whose only proximity to a
\* zone is a vertex at exactly 5000 m from the centre of the 5000 m zone,
\* has been reported safe by isRouteUnsafe.
C2_Witness ==
  /\ arg = Route(<<LngLat(FarAway), LngLat(OnBoundary)>>)
  /\ haversineDistance(OnBoundary[1], OnBoundary[2], redZonesA[1].coordinates[1],
                       redZonesA[1].coordinates[2])
        = Metres(redZonesA[1].radius)
  /\ ret.isRouteUnsafe = Some(FALSE)

\* The answered /api/reroute calls that reached the selector.
SelectorCalls ==
  {i \in 1..Len(calls) :
     /\ calls[i].stage = "answered" /\ calls[i].v = "A" /\ calls[i].ep = "/api/reroute"
     /\ calls[i].osrm.kind = "data" /\ calls[i].osrm.code = "Ok"
     /\ calls[i].osrm.hasRoutes /\ Len(calls[i].osrm.routes) > 0}

\* C3: the /api/reroute handler returns the candidate of smallest index that
\* the classifier reports safe: when some candidate is safe the response is
\* "safe" with exactly the first safe candidate, every candidate before it
\* is unsafe, and a response never carries an unsafe candidate.
C3_FirstSafeCandidate ==
  \A i \in SelectorCalls :
     LET routes == calls[i].osrm.routes
         body == calls[i].res.body
         safe == {k \in 1..Len(routes) : ~isRouteUnsafe(routes[k])}
     IN  /\ safe # {} =>
              /\ body.status = "safe" /\ body.hasRoute
              /\ \E k \in safe :
                    /\ body.route = <<routes[k]>>
                    /\ \A m \in 1..(k - 1) : m \notin safe
         /\ body.hasRoute =>
              /\ Len(body.route) = 1
              /\ NoVertexContainedA(body.route[1])

\* C3 witness: the provider ranked an unsafe candidate first and a safe one
\* second, and the handler answered with the second.
C3_Witness ==
  \E i \in SelectorCalls :
     /\ Len(calls[i].osrm.routes) >= 2
     /\ isRouteUnsafe(calls[i].osrm.routes[1])
     /\ ~isRouteUnsafe(calls[i].osrm.routes[2])
     /\ calls[i].res.body.status = "safe"
     /\ calls[i].res.body.route = <<calls[i].osrm.routes[2]>>

\* The provider returned no routes: no routes field, or an empty list.
NoRoutes(osrm) == osrm.kind = "data" /\ (~osrm.hasRoutes \/ Len(osrm.routes) = 0)

\* The response reports "no route": a 4xx status with an error body and no
\* route, after no call of the classifier.
ReportsNoRoute(res) ==
  /\ res.http \in {400, 404}
  /\ res.body.status = "error" \/ res.body.error # ""
  /\ ~res.body.hasRoute
  /\ res.ran = <<>>

\* C5 as claimed: every handler answers a provider response without routes
\* with an explicit "no route" result and without running the classifier.
C5_EveryHandlerReportsNoRoute ==
  \A i \in 1..Len(calls) :
     (calls[i].stage = "answered" /\ calls[i].queried /\ NoRoutes(calls[i].osrm))
       => ReportsNoRoute(calls[i].res)

\* C5 amended: every handler that runs the classifier or the selector
\* (/api/route and /api/reroute of variant A, /route of variants D and E)
\* answers a provider response without routes with an explicit "no route"
\* result and without running the classifier; the handler of variant B,
\* which has no classifier, does so when the provider's code is not "Ok"
\* and otherwise passes the provider's body on with status 200, also
\* without running a classifier.
C5_ClassifyingHandlersReportNoRoute ==
  \A i \in 1..Len(calls) :
     (calls[i].stage = "answered" /\ calls[i].queried /\ NoRoutes(calls[i].osrm))
       => IF calls[i].v = "B" /\ calls[i].osrm.code = "Ok"
          THEN /\ calls[i].res.http = 200
               /\ calls[i].res.body.hasRoute = calls[i].osrm.hasRoutes
               /\ calls[i].res.body.route = calls[i].osrm.routes
               /\ calls[i].res.ran = <<>>
          ELSE ReportsNoRoute(calls[i].res)

\* C5 witness: the provider answered "Ok" with an empty routes list, and the
\* /api/reroute handler answered 400 without running the classifier.
C5_Witness ==
  \E i \in 1..Len(calls) :
     /\ calls[i].stage = "answered" /\ calls[i].ep = "/api/reroute"
     /\ calls[i].osrm.kind = "data" /\ calls[i].osrm.code = "Ok"
     /\ calls[i].osrm.hasRoutes /\ calls[i].osrm.routes = <<>>
     /\ calls[i].res.http = 400 /\ calls[i].res.ran = <<>>

\* A reroute request: /api/reroute of variant A, or /route with
\* avoidRedZones=true of variant E ("Find a Safer Route").
IsRerouteRequest(c) ==
  \/ c.v = "A" /\ c.ep = "/api/reroute"
  \/ c.v = "E" /\ c.ep = "/route" /\ c.avoid

\* The variant's classifier reports the provider's first candidate unsafe.
FirstCandidateUnsafe(c) ==
  IF c.v = "A" THEN isRouteUnsafe(c.osrm.routes[1])
  ELSE IF c.v = "D" THEN routeUnsafeD(c.osrm.routes[1])
  ELSE routeUnsafe(c.osrm.routes[1])

\* C8 as claimed: in every variant a reroute request queries the provider
\* with the include-alternatives flag and classifies the returned
\* candidates beyond the first: every candidate up to the first safe one
\* (all of them when none is safe).
C8_RerouteUsesAlternatives ==
  \A i \in 1..Len(calls) :
     (calls[i].stage = "answered" /\ calls[i].queried /\ IsRerouteRequest(calls[i]))
       => /\ calls[i].query.alternatives
          /\ (calls[i].osrm.kind = "data" /\ calls[i].osrm.code = "Ok"
                /\ calls[i].osrm.hasRoutes /\ Len(calls[i].osrm.routes) > 1
                /\ FirstCandidateUnsafe(calls[i]))
               => Len(calls[i].res.ran) > 1

\* ------------------------------------------------------ browser, common

\* Map positions a click can give.  Each has at most six decimals, so that
\* lat.toFixed(6) read back with Number() is the same number.
ClickPoints == {DelhiCentre, FarAway}

\* osrmData.routes[0].geometry.coordinates.map(c => [c[1], c[0]]):
\* formatCoords of variant A, formatRoute of variants D and E.
formatCoords(routes) ==
  [k \in 1..Len(routes[1].geometry.coordinates) |->
     <<routes[1].geometry.coordinates[k][2], routes[1].geometry.coordinates[k][1]>>]

\* fetch(url): the request joins the calls in flight.
Fetch(v, ep, coords, avoid, kind, wps) ==
  Append(calls, [Call(hist.issued + 1, v, ep, coords, avoid, kind, wps)
                   EXCEPT !.after = hist.flow])

Flow(state, coords) == [state |-> state, coords |-> coords]

\* ---------------------------------------------------- browser, variant A

InitUiA ==
  [redZones |-> <<>>, safeRoute |-> Null, unsafeRoute |-> Null,
   start |-> <<"77.209", "28.6139">>, end |-> <<"80.9462", "26.8467">>,
   selecting |-> "null", showModal |-> FALSE, isLoading |-> FALSE]

\* Mutant of A_setRedZones: every answer of /api/redzones is appended to the
\* list instead of replacing it, and the effect runs again.
A_setRedZones_Appends ==
  /\ variant = "A" /\ Len(ui.redZones) < 2 * Len(redZonesA)
  /\ ui' = [ui EXCEPT !.redZones = @ \o redZonesA]
  /\ UNCHANGED <<variant, arg, ret, calls, osrmLog, hist>>

\* useEffect: fetch("/api/redzones") resolved; setRedZones(data).
A_setRedZones ==
  /\ variant = "A" /\ ui.redZones = <<>>
  /\ ui' = [ui EXCEPT !.redZones = redZonesA]
  /\ UNCHANGED <<variant, arg, ret, calls, osrmLog, hist>>

\* The buttons Set Start / Set End.
A_setSelecting(w) ==
  /\ variant = "A"
  /\ ui' = [ui EXCEPT !.selecting = w]
  /\ UNCHANGED <<variant, arg, ret, calls, osrmLog, hist>>

\* ClickHandler, rendered while selecting is set: setPoint("lng,lat");
\* onPointSelected().  The loading overlay lies over the map.
A_ClickHandler(p) ==
  /\ variant = "A" /\ ui.selecting # "null" /\ ~ui.isLoading
  /\ ui' = IF ui.selecting = "start"
           THEN [ui EXCEPT !.start = LngLat(p), !.selecting = "null"]
           ELSE [ui EXCEPT !.end = LngLat(p), !.selecting = "null"]
  /\ UNCHANGED <<variant, arg, ret, calls, osrmLog, hist>>

\* getRoute up to its await fetch(...).
A_getRoute ==
  /\ variant = "A" /\ hist.issued < MaxRequests
  /\ ui' = [ui EXCEPT !.safeRoute = Null, !.unsafeRoute = Null, !.isLoading = TRUE]
  /\ calls' = Fetch("A", "/api/route", <<ui.start, ui.end>>, FALSE, "getRoute", 0)
  /\ hist' = [hist EXCEPT !.issued = @ + 1,
                          !.flow = Flow("RouteRequested", <<ui.start, ui.end>>)]
  /\ UNCHANGED <<variant, arg, ret, osrmLog>>

\* getRoute from the response on.
A_getRouteResume(i) ==
  /\ variant = "A" /\ calls[i].kind = "getRoute" /\ calls[i].stage = "answered"
  /\ LET data == calls[i].res.body
     IN  /\ ui' = IF data.status = "safe"
                  THEN [ui EXCEPT !.isLoading = FALSE,
                                  !.safeRoute = Some(formatCoords(data.route))]
                  ELSE IF data.status = "unsafe"
                  THEN [ui EXCEPT !.isLoading = FALSE,
                                  !.unsafeRoute = Some(formatCoords(data.route)),
                                  !.showModal = TRUE]
                  ELSE [ui EXCEPT !.isLoading = FALSE]
         /\ hist' = [hist EXCEPT
               !.shownFrom = IF data.status \in {"safe", "unsafe"} THEN calls[i].id ELSE @,
               !.flow = Flow(IF data.status = "safe" THEN "SAFE"
                             ELSE IF data.status = "unsafe" THEN "UNSAFE" ELSE "Error",
                             calls[i].coords),
               !.alert = IF data.status \in {"safe", "unsafe"} THEN @
                         ELSE IF data.message # "" THEN data.message
                         ELSE "An error occurred."]
  /\ calls' = RemoveAt(calls, i)
  /\ UNCHANGED <<variant, arg, ret, osrmLog>>

\* The button Find Safe Route of the modal: handleReroute up to its await.
A_handleReroute ==
  /\ variant = "A" /\ ui.showModal /\ hist.issued < MaxRequests
  /\ ui' = [ui EXCEPT !.showModal = FALSE, !.isLoading = TRUE]
  /\ calls' = Fetch("A", "/api/reroute", <<ui.start, ui.end>>, FALSE, "handleReroute", 0)
  /\ hist' = [hist EXCEPT !.issued = @ + 1,
                          !.flow = Flow("RerouteRequested", <<ui.start, ui.end>>)]
  /\ UNCHANGED <<variant, arg, ret, osrmLog>>

NoSafeAlternativeAlert ==
  "Could not find a safe alternative route. Please try different start or end points."

\* handleReroute from the response on.
A_handleRerouteResume(i) ==
  /\ variant = "A" /\ calls[i].kind = "handleReroute" /\ calls[i].stage = "answered"
  /\ LET data == calls[i].res.body
     IN  /\ ui' = IF data.status = "safe"
                  THEN [ui EXCEPT !.isLoading = FALSE, !.unsafeRoute = Null,
                                  !.safeRoute = Some(formatCoords(data.route))]
                  ELSE [ui EXCEPT !.isLoading = FALSE]
         /\ hist' = [hist EXCEPT
               !.shownFrom = IF data.status = "safe" THEN calls[i].id ELSE @,
               !.flow = Flow(IF data.status = "safe" THEN "RerouteSAFE"
                             ELSE IF data.status = "no_safe_alternatives_found"
                             THEN "NoSafeAlternative" ELSE "Error",
                             calls[i].coords),
               !.alert = IF data.status = "safe" THEN @
                         ELSE IF data.status = "no_safe_alternatives_found"
                         THEN NoSafeAlternativeAlert
                         ELSE IF data.message # "" THEN data.message
                         ELSE "An error occurred while rerouting."]
  /\ calls' = RemoveAt(calls, i)
  /\ UNCHANGED <<variant, arg, ret, osrmLog>>

\* The button Cancel of the modal: setShowModal(false).
A_onCancel ==
  /\ variant = "A" /\ ui.showModal
  /\ ui' = [ui EXCEPT !.showModal = FALSE]
  /\ hist' = [hist EXCEPT !.flow = Flow("Declined", @.coords)]
  /\ UNCHANGED <<variant, arg, ret, calls, osrmLog>>

\* await fetch(...) rejects (no response): getRoute and handleReroute have
\* no try, so the rest of the function never runs.
A_fetchRejects(i) ==
  /\ variant = "A" /\ calls[i].stage # "answered"
  /\ calls' = RemoveAt(calls, i)
  /\ UNCHANGED <<variant, arg, ret, ui, osrmLog, hist>>

NextA ==
  \/ A_setRedZones
  \/ \E w \in {"start", "end"} : A_setSelecting(w)
  \/ \E p \in ClickPoints : A_ClickHandler(p)
  \/ A_getRoute
  \/ A_handleReroute
  \/ A_onCancel
  \/ \E i \in 1..Len(calls) :
        \/ A_getRouteResume(i) \/ A_handleRerouteResume(i) \/ A_fetchRejects(i)
        \/ HandleApiRoute(i) \/ HandleApiReroute(i)

InitA ==
  /\ variant = "A" /\ ui = InitUiA
  /\ arg = Null /\ ret = NoRet /\ calls = <<>> /\ osrmLog = 0 /\ hist = NoHist

\* ---------------------------------------------------- browser, variant E
\* The first MapComponent of src/unnamed/part_002.  start, end and the
\* waypoints are "lat,lng" texts, kept as <<lat, lng>>; Null is null.
\* The navigation buttons and the vehicle are not part of this section.

InitUiE ==
  [start |-> Null, end |-> Null, waypoints |-> <<>>, route |-> Null,
   unsafeRoute |-> FALSE, selecting |-> "null", addingWaypoint |-> FALSE,
   isLoading |-> FALSE, showUnsafePrompt |-> FALSE, pendingRoute |-> Null,
   showAlertsPanel |-> FALSE]

\* fetchRoute: coordStr, the points of the query as "lng,lat" texts, from
\* the start and end of the render the function was created in.
coordStr(currentWaypoints) ==
  <<LngLat(ui.start[1])>>
    \o [k \in 1..Len(currentWaypoints) |-> LngLat(currentWaypoints[k])]
    \o <<LngLat(ui.end[1])>>

\* The map receives a click only when neither overlay lies over it.
E_MapReachable == ~ui.isLoading /\ ~ui.showUnsafePrompt

\* The buttons Set Start / Set End.
E_setSelecting(w) ==
  /\ variant = "E"
  /\ ui' = [ui EXCEPT !.selecting = w]
  /\ UNCHANGED <<variant, arg, ret, calls, osrmLog, hist>>

\* fetchRoute(currentWaypoints, avoidRedZones) up to its await fetch(url).
\* u is the browser state as the caller's own updates leave it; start and
\* end are read from the current render.
E_fetchRoute(u, currentWaypoints, avoidRedZones, kind) ==
  IF ui.start = Null \/ ui.end = Null
  THEN /\ ui' = u
       /\ hist' = [hist EXCEPT !.alert = "Please select a start and end point first."]
       /\ UNCHANGED calls
  ELSE /\ hist.issued < MaxRequests
       /\ ui' = [u EXCEPT !.isLoading = TRUE, !.route = Null, !.unsafeRoute = FALSE]
       /\ calls' = Fetch("E", "/route", coordStr(currentWaypoints), avoidRedZones,
                         kind, Len(currentWaypoints))
       /\ hist' = [hist EXCEPT
             !.issued = @ + 1,
             !.flow = Flow(IF avoidRedZones THEN "RerouteRequested" ELSE "RouteRequested",
                           coordStr(currentWaypoints))]

\* A click on the map.  The ClickHandler rendered while selecting is set
\* stores the point and clears selecting; the one rendered while
\* addingWaypoint is set calls addWaypointAndRecalculate(point).
E_ClickHandler(p) ==
  /\ variant = "E" /\ E_MapReachable
  /\ ui.selecting # "null" \/ ui.addingWaypoint
  /\ LET selected == IF ui.selecting = "start"
                     THEN [ui EXCEPT !.start = Some(p), !.selecting = "null"]
                     ELSE IF ui.selecting = "end"
                     THEN [ui EXCEPT !.end = Some(p), !.selecting = "null"]
                     ELSE ui
         newWps == Append(ui.waypoints, p)
     IN  IF ui.addingWaypoint
         THEN E_fetchRoute([selected EXCEPT !.waypoints = newWps, !.addingWaypoint = FALSE],
                           newWps, FALSE, "addWaypoint")
         ELSE /\ ui' = selected
              /\ UNCHANGED <<calls, hist>>
  /\ UNCHANGED <<variant, arg, ret, osrmLog>>

\* The button Get Route, disabled={isLoading || !start || !end}:
\* setWaypoints([]); fetchRoute([], false).
E_handleGetRouteClick ==
  /\ variant = "E"
  /\ ~(ui.isLoading \/ ui.start = Null \/ ui.end = Null)
  /\ E_fetchRoute([ui EXCEPT !.waypoints = <<>>], <<>>, FALSE, "getRoute")
  /\ UNCHANGED <<variant, arg, ret, osrmLog>>

\* fetchRoute from the response on.
E_fetchRouteResume(i) ==
  /\ variant = "E" /\ calls[i].v = "E" /\ calls[i].stage = "answered"
  /\ LET res == calls[i].res
         data == res.body
         found == res.http = 200 /\ data.hasRoute /\ Len(data.route) # 0
         prompt == found /\ data.unsafe /\ ~calls[i].avoid
     IN  /\ ui' = IF ~found THEN [ui EXCEPT !.isLoading = FALSE]
                  ELSE IF prompt
                  THEN [ui EXCEPT !.isLoading = FALSE,
                                  !.route = Some(formatCoords(data.route)),
                                  !.unsafeRoute = data.unsafe,
                                  !.pendingRoute = Some([id |-> calls[i].id, data |-> data]),
                                  !.showUnsafePrompt = TRUE]
                  ELSE [ui EXCEPT !.isLoading = FALSE,
                                  !.route = Some(formatCoords(data.route)),
                                  !.unsafeRoute = data.unsafe]
         /\ hist' = [hist EXCEPT
               !.shownFrom = IF found THEN calls[i].id ELSE @,
               !.flow = Flow(IF ~found THEN "Error"
                             ELSE IF calls[i].avoid
                             THEN (IF data.unsafe THEN "RerouteUNSAFE" ELSE "RerouteSAFE")
                             ELSE (IF data.unsafe THEN "UNSAFE" ELSE "SAFE"),
                             calls[i].coords),
               !.alert = IF found THEN @
                         ELSE IF data.error # "" THEN data.error ELSE "No route found."]
  /\ calls' = RemoveAt(calls, i)
  /\ UNCHANGED <<variant, arg, ret, osrmLog>>

\* await fetch(url) rejects: catch alerts, finally clears isLoading.  A
\* handler that waits for its nearest-road requests runs on without the
\* browser.
E_fetchRejects(i) ==
  /\ variant = "E" /\ calls[i].v = "E" /\ calls[i].stage # "answered"
  /\ calls[i].open
  /\ ui' = [ui EXCEPT !.isLoading = FALSE]
  /\ calls' = IF calls[i].stage = "snapping" THEN [calls EXCEPT ![i].open = FALSE]
              ELSE RemoveAt(calls, i)
  /\ hist' = [hist EXCEPT !.alert = "Failed to fetch route from the server.",
                          !.flow = Flow("Error", calls[i].coords)]
  /\ UNCHANGED <<variant, arg, ret, osrmLog>>

\* Mutant of E_handleAcceptUnsafe: the pending route is installed without
\* setUnsafeRoute(true).
E_handleAcceptUnsafe_KeepsFlag ==
  /\ variant = "E" /\ ui.showUnsafePrompt
  /\ ui' = IF ui.pendingRoute # Null
           THEN [ui EXCEPT !.route = Some(formatCoords(ui.pendingRoute[1].data.route)),
                           !.showAlertsPanel = TRUE,
                           !.showUnsafePrompt = FALSE, !.pendingRoute = Null]
           ELSE [ui EXCEPT !.showUnsafePrompt = FALSE, !.pendingRoute = Null]
  /\ hist' = [hist EXCEPT
        !.shownFrom = IF ui.pendingRoute # Null THEN ui.pendingRoute[1].id ELSE @,
        !.flow = Flow("Declined", @.coords)]
  /\ UNCHANGED <<variant, arg, ret, calls, osrmLog>>

\* The prompt's button Accept Unsafe Route.
E_handleAcceptUnsafe ==
  /\ variant = "E" /\ ui.showUnsafePrompt
  /\ ui' = IF ui.pendingRoute # Null
           THEN [ui EXCEPT !.route = Some(formatCoords(ui.pendingRoute[1].data.route)),
                           !.unsafeRoute = TRUE, !.showAlertsPanel = TRUE,
                           !.showUnsafePrompt = FALSE, !.pendingRoute = Null]
           ELSE [ui EXCEPT !.showUnsafePrompt = FALSE, !.pendingRoute = Null]
  /\ hist' = [hist EXCEPT
        !.shownFrom = IF ui.pendingRoute # Null THEN ui.pendingRoute[1].id ELSE @,
        !.flow = Flow("Declined", @.coords)]
  /\ UNCHANGED <<variant, arg, ret, calls, osrmLog>>

\* The prompt's button Find a Safer Route.
E_handleFindSafeRoute ==
  /\ variant = "E" /\ ui.showUnsafePrompt
  /\ E_fetchRoute([ui EXCEPT !.showUnsafePrompt = FALSE, !.pendingRoute = Null],
                  ui.waypoints, TRUE, "findSafeRoute")
  /\ UNCHANGED <<variant, arg, ret, osrmLog>>

\* The prompt's button Add Waypoint.
E_handleAddWaypointChoice ==
  /\ variant = "E" /\ ui.showUnsafePrompt
  /\ ui' = [ui EXCEPT !.showUnsafePrompt = FALSE, !.pendingRoute = Null,
                      !.addingWaypoint = TRUE]
  /\ hist' = [hist EXCEPT !.flow = Flow("AddWaypoint", @.coords)]
  /\ UNCHANGED <<variant, arg, ret, calls, osrmLog>>

\* The button Stop Navigation: handleStopNavigation closes the alerts panel.
\* navRunning, vehiclePos and logs, which it resets as well, are the state
\* of the navigation specification; its DELETE /reset-alerts goes to the
\* alert store.
E_handleStopNavigation ==
  /\ variant = "E"
  /\ ui' = [ui EXCEPT !.showAlertsPanel = FALSE]
  /\ UNCHANGED <<variant, arg, ret, calls, osrmLog, hist>>

NextE ==
  \/ E_handleStopNavigation
  \/ \E w \in {"start", "end"} : E_setSelecting(w)
  \/ \E p \in ClickPoints : E_ClickHandler(p)
  \/ E_handleGetRouteClick
  \/ E_handleAcceptUnsafe
  \/ E_handleFindSafeRoute
  \/ E_handleAddWaypointChoice
  \/ \E i \in 1..Len(calls) :
        \/ E_fetchRouteResume(i) \/ E_fetchRejects(i)
        \/ HandleRouteE(i)

InitE ==
  /\ variant = "E" /\ ui = InitUiE
  /\ arg = Null /\ ret = NoRet /\ calls = <<>> /\ osrmLog = 0 /\ hist = NoHist

\* ---------------------------------------------------- browser, variant D
\* MapComponent of src/unnamed/part_001; start, end and the waypoints are
\* kept as in variant E.  The vehicle is not part of this section.

InitUiD ==
  [start |-> Null, end |-> Null, waypoints |-> <<>>, route |-> Null,
   unsafeRoute |-> FALSE, selecting |-> "null", addingWaypoint |-> FALSE,
   isLoading |-> FALSE]

\* The buttons Set Start / Set End.
D_setSelecting(w) ==
  /\ variant = "D"
  /\ ui' = [ui EXCEPT !.selecting = w]
  /\ UNCHANGED <<variant, arg, ret, calls, osrmLog, hist>>

\* fetchRoute(currentWaypoints) up to its await fetch(...); u as in
\* E_fetchRoute.  unsafeRoute is left as it is.
D_fetchRoute(u, currentWaypoints, kind) ==
  IF ui.start = Null \/ ui.end = Null
  THEN /\ ui' = u
       /\ hist' = [hist EXCEPT !.alert = "Please select start and end first."]
       /\ UNCHANGED calls
  ELSE /\ hist.issued < MaxRequests
       /\ ui' = [u EXCEPT !.isLoading = TRUE, !.route = Null]
       /\ calls' = Fetch("D", "/route", coordStr(currentWaypoints), FALSE,
                         kind, Len(currentWaypoints))
       /\ hist' = [hist EXCEPT
             !.issued = @ + 1,
             !.flow = Flow("RouteRequested", coordStr(currentWaypoints))]

\* A click on the map, with the two ClickHandlers of variant E; the second
\* calls addWaypoint(point).  The loading overlay lies over the map.
D_ClickHandler(p) ==
  /\ variant = "D" /\ ~ui.isLoading
  /\ ui.selecting # "null" \/ ui.addingWaypoint
  /\ LET selected == IF ui.selecting = "start"
                     THEN [ui EXCEPT !.start = Some(p), !.selecting = "null"]
                     ELSE IF ui.selecting = "end"
                     THEN [ui EXCEPT !.end = Some(p), !.selecting = "null"]
                     ELSE ui
         newWps == Append(ui.waypoints, p)
     IN  IF ui.addingWaypoint
         THEN D_fetchRoute([selected EXCEPT !.waypoints = newWps, !.addingWaypoint = FALSE],
                           newWps, "addWaypoint")
         ELSE /\ ui' = selected
              /\ UNCHANGED <<calls, hist>>
  /\ UNCHANGED <<variant, arg, ret, osrmLog>>

\* The button Get Route (never disabled): setWaypoints([]); fetchRoute([]).
D_handleGetRouteClick ==
  /\ variant = "D"
  /\ D_fetchRoute([ui EXCEPT !.waypoints = <<>>], <<>>, "getRoute")
  /\ UNCHANGED <<variant, arg, ret, osrmLog>>

\* fetchRoute from the response on.  When the route is unsafe and the
\* request had no waypoints, window.confirm asks; takeUnsafe is the answer
\* (OK = accept, Cancel = add waypoint).
D_fetchRouteResume(i, takeUnsafe) ==
  /\ variant = "D" /\ calls[i].v = "D" /\ calls[i].stage = "answered"
  /\ LET data == calls[i].res.body
         found == data.hasRoute /\ Len(data.route) # 0
         asked == found /\ data.unsafe /\ calls[i].wps = 0
     IN  /\ asked \/ takeUnsafe
         /\ ui' = IF ~found THEN [ui EXCEPT !.isLoading = FALSE]
                  ELSE [ui EXCEPT !.isLoading = FALSE,
                                  !.route = Some(formatCoords(data.route)),
                                  !.unsafeRoute = data.unsafe,
                                  !.addingWaypoint = IF asked /\ ~takeUnsafe THEN TRUE ELSE @]
         /\ hist' = [hist EXCEPT
               !.shownFrom = IF found THEN calls[i].id ELSE @,
               !.flow = Flow(IF ~found THEN "Error"
                             ELSE IF ~data.unsafe THEN "SAFE"
                             ELSE IF ~asked THEN "UNSAFE"
                             ELSE IF takeUnsafe THEN "Declined" ELSE "AddWaypoint",
                             calls[i].coords),
               !.alert = IF found THEN @ ELSE "No route found."]
  /\ calls' = RemoveAt(calls, i)
  /\ UNCHANGED <<variant, arg, ret, osrmLog>>

\* await fetch(...) rejects: catch alerts, finally clears isLoading.
D_fetchRejects(i) ==
  /\ variant = "D" /\ calls[i].v = "D" /\ calls[i].stage # "answered"
  /\ ui' = [ui EXCEPT !.isLoading = FALSE]
  /\ calls' = RemoveAt(calls, i)
  /\ hist' = [hist EXCEPT !.alert = "Failed to fetch route",
                          !.flow = Flow("Error", calls[i].coords)]
  /\ UNCHANGED <<variant, arg, ret, osrmLog>>

NextD ==
  \/ \E w \in {"start", "end"} : D_setSelecting(w)
  \/ \E p \in ClickPoints : D_ClickHandler(p)
  \/ D_handleGetRouteClick
  \/ \E i \in 1..Len(calls) :
        \/ \E takeUnsafe \in BOOLEAN : D_fetchRouteResume(i, takeUnsafe)
        \/ D_fetchRejects(i)
        \/ HandleRouteD(i)

InitD ==
  /\ variant = "D" /\ ui = InitUiD
  /\ arg = Null /\ ret = NoRet /\ calls = <<>> /\ osrmLog = 0 /\ hist = NoHist

\* ---------------------------------------------------- browser, variant B
\* MapComponent of src/unnamed/part_000, served by src/unnamed/part_004.

\* The zones GET /api/redzones of variant B answers with.
redZonesB ==
  << [name |-> "Zone A (Delhi)", coordinates |-> <<"28.6139", "77.209">>, radius |-> 5000],
     [name |-> "Zone B (Lucknow)", coordinates |-> <<"26.8467", "80.9462">>, radius |-> 4000] >>

InitUiB ==
  [redZones |-> <<>>, route |-> Null,
   start |-> <<"77.209", "28.6139">>, end |-> <<"80.9462", "26.8467">>,
   selecting |-> "null"]

\* isInsideRedZone(lat, lng): redZones.some(...) over the zones loaded so far.
isInsideRedZone(lat, lng) ==
  \E j \in 1..Len(ui.redZones) :
     Less(haversineDistance(lat, lng, ui.redZones[j].coordinates[1],
                            ui.redZones[j].coordinates[2]),
          Metres(ui.redZones[j].radius))

\* useEffect: fetch("/api/redzones") resolved; setRedZones(data).
B_setRedZones ==
  /\ variant = "B" /\ ui.redZones = <<>>
  /\ ui' = [ui EXCEPT !.redZones = redZonesB]
  /\ UNCHANGED <<variant, arg, ret, calls, osrmLog, hist>>

\* The buttons Set Start / Set End.
B_setSelecting(w) ==
  /\ variant = "B"
  /\ ui' = [ui EXCEPT !.selecting = w]
  /\ UNCHANGED <<variant, arg, ret, calls, osrmLog, hist>>

\* ClickHandler: setPoint("lng,lat"); alert(label + " set at ...");
\* onPointSelected().
B_ClickHandler(p) ==
  /\ variant = "B" /\ ui.selecting # "null"
  /\ ui' = IF ui.selecting = "start"
           THEN [ui EXCEPT !.start = LngLat(p), !.selecting = "null"]
           ELSE [ui EXCEPT !.end = LngLat(p), !.selecting = "null"]
  /\ hist' = [hist EXCEPT !.alert = IF ui.selecting = "start" THEN "Start set at"
                                    ELSE "End set at"]
  /\ UNCHANGED <<variant, arg, ret, calls, osrmLog>>

\* getRoute up to its await fetch(...), or to the return of its pre-check.
B_getRoute ==
  /\ variant = "B"
  /\ ui' = [ui EXCEPT !.route = Null]
  /\ IF isInsideRedZone(ui.start[2], ui.start[1])
     THEN /\ hist' = [hist EXCEPT !.alert =
                "Error: Your starting point is inside a restricted red zone. Please select a different location."]
          /\ UNCHANGED calls
     ELSE IF isInsideRedZone(ui.end[2], ui.end[1])
     THEN /\ hist' = [hist EXCEPT !.alert =
                "Error: Your destination is inside a restricted red zone. Please select a different location."]
          /\ UNCHANGED calls
     ELSE /\ hist.issued < MaxRequests
          /\ calls' = Fetch("B", "/api/route", <<ui.start, ui.end>>, FALSE, "getRoute", 0)
          /\ hist' = [hist EXCEPT !.issued = @ + 1,
                                  !.flow = Flow("RouteRequested", <<ui.start, ui.end>>)]
  /\ UNCHANGED <<variant, arg, ret, osrmLog>>

\* getRoute from the response on.
B_getRouteResume(i) ==
  /\ variant = "B" /\ calls[i].v = "B" /\ calls[i].stage = "answered"
  /\ LET res == calls[i].res
         data == res.body
         ok == res.http = 200
         found == ok /\ data.hasRoute /\ Len(data.route) > 0
     IN  /\ ui' = IF found THEN [ui EXCEPT !.route = Some(formatCoords(data.route))]
                  ELSE ui
         /\ hist' = [hist EXCEPT
               !.shownFrom = IF found THEN calls[i].id ELSE @,
               !.flow = Flow(IF found THEN "Shown" ELSE "Error", calls[i].coords),
               !.alert = IF found THEN @
                         ELSE IF ok
                         THEN "Could not find a route. Please try different locations."
                         ELSE "An error occurred: " \o
                              (IF data.error # "" THEN data.error ELSE "Failed to fetch route")]
  /\ calls' = RemoveAt(calls, i)
  /\ UNCHANGED <<variant, arg, ret, osrmLog>>

\* await fetch(...) rejects: catch alerts.
B_fetchRejects(i) ==
  /\ variant = "B" /\ calls[i].v = "B" /\ calls[i].stage # "answered"
  /\ calls' = RemoveAt(calls, i)
  /\ hist' = [hist EXCEPT !.alert = "An error occurred: Failed to fetch",
                          !.flow = Flow("Error", calls[i].coords)]
  /\ UNCHANGED <<variant, arg, ret, ui, osrmLog>>

NextB ==
  \/ B_setRedZones
  \/ \E w \in {"start", "end"} : B_setSelecting(w)
  \/ \E p \in ClickPoints : B_ClickHandler(p)
  \/ B_getRoute
  \/ \E i \in 1..Len(calls) :
        \/ B_getRouteResume(i) \/ B_fetchRejects(i)
        \/ HandleApiRouteB(i)

InitB ==
  /\ variant = "B" /\ ui = InitUiB
  /\ arg = Null /\ ret = NoRet /\ calls = <<>> /\ osrmLog = 0 /\ hist = NoHist

\* ------------------------------------------- specification: the browsers

InitUI == InitA \/ InitB \/ InitD \/ InitE

NextUI == NextA \/ NextB \/ NextD \/ NextE

SpecUI == InitUI /\ [][NextUI]_vars

\* ------------- specification: the browsers that show an unsafe-route choice

InitFlow == InitA \/ InitD \/ InitE

NextFlow == NextA \/ NextD \/ NextE

SpecFlow == InitFlow /\ [][NextFlow]_vars

\* ---------------------------------------------- properties of the browsers

\* The answered /api/reroute calls whose candidates are all unsafe.
AllUnsafeCalls ==
  {i \in SelectorCalls :
     \A k \in 1..Len(calls[i].osrm.routes) : isRouteUnsafe(calls[i].osrm.routes[k])}

\* The route on display: safeRoute or unsafeRoute of variant A, route and
\* the unsafe flag of variants D and E.
Displayed(u) ==
  IF variant = "A" THEN <<u.safeRoute, u.unsafeRoute>>
  ELSE IF variant = "B" THEN <<u.route>>
  ELSE <<u.route, u.unsafeRoute>>

\* C4, the selector's part: when every candidate is unsafe, /api/reroute
\* answers 200 with status "no_safe_alternatives_found", no route and no
\* error message.
C4_SelectorReportsNoSafeAlternative ==
  \A i \in AllUnsafeCalls :
     /\ calls[i].res.http = 200
     /\ calls[i].res.body.status = "no_safe_alternatives_found"
     /\ ~calls[i].res.body.hasRoute
     /\ calls[i].res.body.message = ""

\* C4, the caller's part: on that answer handleReroute shows its own alert
\* (neither a route, as when one is found, nor the error alert) and leaves
\* the routes on display as they were.
C4_CallerHandlesItSeparately ==
  \A i \in 1..Len(calls) :
     (A_handleRerouteResume(i)
        /\ calls[i].res.body.status = "no_safe_alternatives_found")
       => /\ hist'.alert = NoSafeAlternativeAlert
          /\ hist'.alert # "An error occurred while rerouting."
          /\ Displayed(ui') = Displayed(ui)
          /\ ~ui'.isLoading

\* C4: the selector reports the absence of a safe candidate as the distinct,
\* non-error outcome "no_safe_alternatives_found" without a route, and the
\* caller handles that outcome separately from "found" and from "error".
C4_NoSafeAlternativeIsDistinct ==
  /\ []C4_SelectorReportsNoSafeAlternative
  /\ [][C4_CallerHandlesItSeparately]_vars

\* C4 witness: handleReroute has received "no_safe_alternatives_found" and
\* shown its alert, with the unsafe route still on display.
C4_Witness ==
  /\ variant = "A" /\ hist.flow.state = "NoSafeAlternative"
  /\ hist.alert = NoSafeAlternativeAlert
  /\ ui.unsafeRoute # Null /\ ui.safeRoute = Null /\ ~ui.isLoading

\* The point [lng, lat] lies inside a zone of the variant's zone set.
InsideZone(v, c) ==
  IF v = "A" THEN \E j \in 1..Len(redZonesA) : ContainedA(c, j)
  ELSE IF v = "B"
  THEN \E j \in 1..Len(redZonesB) :
          Less(haversineDistance(c[2], c[1], redZonesB[j].coordinates[1],
                                 redZonesB[j].coordinates[2]),
               Metres(redZonesB[j].radius))
  ELSE IF v = "D" THEN \E j \in 1..Len(redZonesD) : ContainedD(c, j)
  ELSE \E j \in 1..Len(redZonesE) : ContainedE(c, j)

\* C6 as claimed: in every browser variant the provider is queried for a
\* request only when both endpoints are set and neither the start nor the
\* end of the request lies inside a zone.
C6_QueryOnlyOutsideZones ==
  \A i \in 1..Len(calls) :
     calls[i].queried =>
        /\ Len(calls[i].coords) >= 2
        /\ ~InsideZone(calls[i].v, calls[i].coords[1])
        /\ ~InsideZone(calls[i].v, calls[i].coords[Len(calls[i].coords)])

\* C7 as claimed: a reroute request is issued only when the flow stands at
\* an UNSAFE verdict of the evaluation for the very points the reroute is
\* asked for (not from Idle, from RouteRequested or after a SAFE verdict).
\* A reroute request is handleReroute of variant A, handleFindSafeRoute of
\* variant E.
C7_RerouteOnlyAfterUnsafeVerdict ==
  \A i \in 1..Len(calls) :
     calls[i].kind \in {"handleReroute", "findSafeRoute"} =>
        /\ calls[i].after.state = "UNSAFE"
        /\ calls[i].after.coords = calls[i].coords

\* The confirm dialog of variant D was shown for the answer of call c.
D_Asked(c) ==
  /\ c.res.body.hasRoute /\ Len(c.res.body.route) # 0
  /\ c.res.body.unsafe /\ c.wps = 0

\* The continuation of the i-th call runs.
ResumeStep(i) ==
  \/ A_getRouteResume(i) \/ A_handleRerouteResume(i)
  \/ B_getRouteResume(i)
  \/ \E takeUnsafe \in BOOLEAN : D_fetchRouteResume(i, takeUnsafe)
  \/ E_fetchRouteResume(i)

\* C9 as claimed, the declining step: Cancel of variant A, OK in the
\* confirm dialog of variant D, Accept Unsafe Route of variant E.  It issues
\* no request, none reaches the provider, and the unsafe route is on
\* display afterwards, marked unsafe.
C9_DeclineStep ==
  /\ A_onCancel =>
        /\ calls' = calls /\ osrmLog' = osrmLog
        /\ Displayed(ui') = Displayed(ui)
        /\ ui'.unsafeRoute # Null
  /\ \A i \in 1..Len(calls) :
        (D_fetchRouteResume(i, TRUE) /\ D_Asked(calls[i])) =>
           /\ Len(calls') = Len(calls) - 1 /\ osrmLog' = osrmLog
           /\ ui'.route = Some(formatCoords(calls[i].res.body.route))
           /\ ui'.unsafeRoute /\ ui'.addingWaypoint = ui.addingWaypoint
  /\ E_handleAcceptUnsafe =>
        /\ calls' = calls /\ osrmLog' = osrmLog
        /\ ui.pendingRoute # Null
        /\ ui'.route = Some(formatCoords(ui.pendingRoute[1].data.route))
        /\ ui'.unsafeRoute /\ ~ui'.showUnsafePrompt

\* C9 as claimed, afterwards: from the declining step until the next action
\* of the user that asks for a route, no query is sent to the provider and
\* no answer that arrives changes the route on display or its marking.
C9_TerminalStep ==
  hist.flow.state = "Declined" =>
     /\ osrmLog' = osrmLog
     /\ \A i \in 1..Len(calls) : ResumeStep(i) => Displayed(ui') = Displayed(ui)

\* C9 as claimed: declining the reroute is terminal: the unsafe route stays
\* on display, marked unsafe, and no further request is issued to the
\* provider until a new action of the user.
C9_DeclineIsTerminal == [][C9_DeclineStep /\ C9_TerminalStep]_vars

\* C10 as claimed: the answer to a request that a later request has
\* superseded is ignored when it arrives: it changes neither the route on
\* display nor its unsafe flag.
C10_SupersededAnswerIgnored ==
  [][\A i \in 1..Len(calls) :
        (ResumeStep(i) /\ calls[i].id < hist.issued) => Displayed(ui') = Displayed(ui)]_vars

\* ------------------------------ specification: GET /route of variant E, by step
\* The handler of src/website/Backend/backend.js between its awaits.  arg is
\* the request's query; ret is the handler's frame:
\*   pc              "idle", "snapping" (awaiting Promise.all), "routing"
\*                   (awaiting the provider's fetch) or "done" (responded)
\*   rawPoints       coords.split(";").map(p => p.split(",").map(Number))
\*   snapInFlight    indexes of the points whose snapToRoad fetch is pending
\*   snapOutcome     what the snapping service did for each point ("" not yet)
\*   snappedPoints   the values the snapToRoad promises resolved to
\*   routeInFlight   the provider fetch is pending
\*   query, osrm     the provider query made and its answer
\*   res             the response sent

\* A request without coords, with start and end, with twice the same point,
\* and with a waypoint; with and without avoidRedZones=true.
InitRouteE ==
  /\ variant = "routeE"
  /\ arg \in { [coords |-> c, avoidRedZones |-> a] :
                 c \in { <<>>,
                         <<LngLat(DelhiCentre), LngLat(LucknowCentre)>>,
                         <<LngLat(DelhiCentre), LngLat(DelhiCentre)>>,
                         <<LngLat(FarAway), LngLat(DelhiCentre), LngLat(LucknowCentre)>> },
                 a \in BOOLEAN }
  /\ ret = [pc |-> "idle", rawPoints |-> <<>>, snapInFlight |-> {}, snapOutcome |-> <<>>,
            snappedPoints |-> <<>>, routeInFlight |-> FALSE, queried |-> FALSE,
            query |-> NoQuery, osrm |-> OsrmThrow, answered |-> FALSE, res |-> NoResponse]
  /\ ui = NoUi /\ calls = <<>> /\ osrmLog = 0 /\ hist = NoHist

\* Lines 119-128: 400 when coords is missing; else the points are parsed and
\* rawPoints.map calls snapToRoad on every point, each call running up to
\* its await fetch(...), before Promise.all is awaited.
RouteE_Receive ==
  /\ variant = "routeE" /\ ret.pc = "idle"
  /\ IF Len(arg.coords) = 0
     THEN ret' = [ret EXCEPT !.pc = "done",
                             !.res = Response(400, BodyError("Coordinates are missing"), <<>>)]
     ELSE ret' = [ret EXCEPT !.pc = "snapping",
                             !.rawPoints = arg.coords,
                             !.snapInFlight = 1..Len(arg.coords),
                             !.snapOutcome = [k \in 1..Len(arg.coords) |-> ""],
                             !.snappedPoints = [k \in 1..Len(arg.coords) |-> Null]]
  /\ UNCHANGED <<variant, arg, ui, calls, osrmLog, hist>>

\* Lines 73-83: the snapping service answers (or fails) for the k-th point
\* and its snapToRoad promise resolves.
RouteE_SnapReturns(k) ==
  /\ variant = "routeE" /\ ret.pc = "snapping" /\ k \in ret.snapInFlight
  /\ \E outcome \in SnapOutcomes :
       ret' = [ret EXCEPT !.snapInFlight = @ \ {k},
                          !.snapOutcome[k] = outcome,
                          !.snappedPoints[k] = Some(snapToRoad(ret.rawPoints[k], outcome))]
  /\ UNCHANGED <<variant, arg, ui, calls, osrmLog, hist>>

\* Lines 130-138: Promise.all has resolved; the URL is built from the
\* snapped points and the provider is fetched.  avoidRedZones only logs.
RouteE_FetchRoute ==
  /\ variant = "routeE" /\ ret.pc = "snapping" /\ ret.snapInFlight = {}
  /\ ret' = [ret EXCEPT !.pc = "routing", !.routeInFlight = TRUE, !.queried = TRUE,
                        !.query = OsrmQuery("E", "/route",
                                    [k \in 1..Len(ret.snappedPoints) |-> ret.snappedPoints[k][1]],
                                    FALSE)]
  /\ osrmLog' = osrmLog + 1
  /\ UNCHANGED <<variant, arg, ui, calls, hist>>

\* Lines 139-158: the provider's answer arrives (or the fetch throws); the
\* classifier runs on routes[0] and the response is sent.
RouteE_Respond ==
  /\ variant = "routeE" /\ ret.pc = "routing"
  /\ \E osrm \in ProviderOutcomes(FALSE) :
       ret' = [ret EXCEPT !.pc = "done", !.routeInFlight = FALSE, !.answered = TRUE,
                          !.osrm = osrm, !.res = routeE(osrm)]
  /\ UNCHANGED <<variant, arg, ui, calls, osrmLog, hist>>

NextRouteE ==
  \/ RouteE_Receive
  \/ \E k \in 1..3 : RouteE_SnapReturns(k)
  \/ RouteE_FetchRoute
  \/ RouteE_Respond

SpecRouteE == InitRouteE /\ [][NextRouteE]_vars

\* C11: for one request there is never more than one fetch pending at the
\* point-snapping service nor at the routing provider, and the classifier
\* has run (res.ran is not empty) only after the provider's answer arrived.
C11_OneRequestInFlight ==
  variant = "routeE" =>
    /\ Cardinality(ret.snapInFlight) <= 1
    /\ osrmLog <= 1
    /\ ret.res.ran # <<>> => (ret.answered /\ ~ret.routeInFlight)

\* C12: a point whose snapping failed (the fetch threw, or the body was not
\* Ok or had no waypoints) resolves to the original [lon, lat];
\* a point whose snapping succeeded resolves to the service's location
\* whatever happened to the others; the provider is queried with exactly
\* the resolved points; and the response is the one the provider's answer
\* alone determines (200 when it has a route).
C12_SnapFailureDegrades ==
  (variant = "routeE" /\ ret.pc \in {"snapping", "routing", "done"} /\ ret.rawPoints # <<>>) =>
    /\ \A k \in 1..Len(ret.rawPoints) :
          /\ ret.snapOutcome[k] \in {"bad", "throw"} =>
               ret.snappedPoints[k] = Some(ret.rawPoints[k])
          /\ ret.snapOutcome[k] = "ok" =>
               ret.snappedPoints[k] = Some(nearestLocation(ret.rawPoints[k]))
    /\ ret.pc = "done" =>
          /\ ret.queried /\ osrmLog = 1
          /\ Len(ret.query.coords) = Len(ret.rawPoints)
          /\ \A k \in 1..Len(ret.rawPoints) :
                ret.query.coords[k] =
                  (IF ret.snapOutcome[k] \in {"bad", "throw"}
                   THEN ret.rawPoints[k] ELSE nearestLocation(ret.rawPoints[k]))
          /\ ret.res = routeE(ret.osrm)
          /\ (ret.osrm.kind = "data" /\ ret.osrm.hasRoutes /\ Len(ret.osrm.routes) > 0)
                => (ret.res.http = 200 /\ ret.res.body.error = "")

\* C12 witness: the snapping of the first point threw, the second point was
\* moved to the road position, the provider was queried with the original
\* first point and the moved second point, and the response is 200.
C12_Witness ==
  /\ variant = "routeE" /\ ret.pc = "done" /\ Len(ret.rawPoints) = 2
  /\ ret.snapOutcome[1] = "throw" /\ ret.snapOutcome[2] = "ok"
  /\ nearestLocation(ret.rawPoints[2]) # ret.rawPoints[2]
  /\ ret.query.coords = <<ret.rawPoints[1], nearestLocation(ret.rawPoints[2])>>
  /\ ret.res.http = 200

\* A /check query that is not a GeoPoint: a latitude or longitude that is
\* missing, is not a number, has text after the number, or is out of range.
InvalidCheckQuery(q) ==
  \/ q[1][1] = "" \/ q[1][2] # ""
  \/ q[2][1] = "" \/ q[2][2] # ""
  \/ q[2][1] = "437.209"

\* C13: a /check request whose latitude or longitude is not a valid
\* coordinate is answered with an error and no containment result.
C13_InvalidInputRejected ==
  \A i \in 1..Len(calls) :
     (calls[i].stage = "answered" /\ calls[i].ep = "/check" /\ InvalidCheckQuery(calls[i].coords))
       => (calls[i].res.http >= 400 /\ calls[i].res.body.inRedZone = Null)

\* C14: no request makes more than one provider call (the provider has been
\* called at most as often as requests were issued, and at least once for
\* every request in flight that reached it);
\* a request whose provider call failed is answered with status 500 and an
\* error body, without a route and without running the classifier; and a
\* request whose provider call returned a route is answered 200 whatever
\* happened to the requests before it.
C14_ProviderFailureIsExplicit ==
  /\ osrmLog <= hist.issued
  /\ Cardinality({i \in 1..Len(calls) : calls[i].queried}) <= osrmLog
  /\ \A i \in 1..Len(calls) :
        (calls[i].stage = "answered" /\ calls[i].queried) =>
           /\ calls[i].osrm.kind = "throw" =>
                /\ calls[i].res.http = 500
                /\ calls[i].res.body.error # "" \/
                     (calls[i].res.body.status = "error" /\ calls[i].res.body.message # "")
                /\ ~calls[i].res.body.hasRoute
                /\ calls[i].res.ran = <<>>
           /\ ( /\ calls[i].osrm.kind = "data" /\ calls[i].osrm.code = "Ok"
                /\ calls[i].osrm.hasRoutes /\ Len(calls[i].osrm.routes) > 0 )
                => calls[i].res.http = 200

\* C14 witness: the provider call of the first request failed and the
\* browser was told so; the second request, issued afterwards, has been
\* answered 200 with a route.
C14_Witness ==
  /\ hist.issued = 2 /\ osrmLog = 2
  /\ hist.alert \in {"Failed to fetch route", "Failed to process route."}
  /\ \E i \in 1..Len(calls) :
        /\ calls[i].id = 2 /\ calls[i].stage = "answered"
        /\ calls[i].res.http = 200 /\ calls[i].res.body.hasRoute

\* C15: when isRouteUnsafe has reported a route unsafe, what it returned
\* identifies the zone of the first vertex/zone pair that matches in
\* traversal order (vertices in order, zones in order for each vertex): no
\* other route whose first match is in a different zone gets the same result.
C15_UnsafeVerdictNamesZone ==
  LET firstZone(route) ==
        LET cs == route.geometry.coordinates
            i == CHOOSE i \in 1..Len(cs) :
                   /\ \E j \in 1..Len(redZonesA) : ContainedA(cs[i], j)
                   /\ \A k \in 1..(i - 1) : \A j \in 1..Len(redZonesA) : ~ContainedA(cs[k], j)
        IN  CHOOSE j \in 1..Len(redZonesA) :
              ContainedA(cs[i], j) /\ \A m \in 1..(j - 1) : ~ContainedA(cs[i], m)
  IN  (variant = "classify" /\ ret.isRouteUnsafe = Some(TRUE)) =>
        \A other \in RouteInputs :
           (isRouteUnsafe(other) /\ firstZone(other) # firstZone(arg))
             => Some(isRouteUnsafe(other)) # ret.isRouteUnsafe

\* C16: each classifier returns for a route what it returns for the same
\* vertices in reversed order.
C16_DirectionInvariant ==
  (variant = "classify" /\ ret.reversed # Null) =>
     /\ ret.isRouteUnsafe # Null => ret.isRouteUnsafe = Some(ret.reversed[1].isRouteUnsafe)
     /\ ret.routeUnsafe # Null => ret.routeUnsafe = Some(ret.reversed[1].routeUnsafe)
     /\ ret.routeUnsafeD # Null => ret.routeUnsafeD = Some(ret.reversed[1].routeUnsafeD)

\* C16 witness: a route whose first vertex is outside every zone and whose
\* last vertex is inside one (so that one direction stops at its first
\* vertex and the other at its last) has been classified in both directions
\* by isRouteUnsafe and by routeUnsafe, unsafe each time.
C16_Witness ==
  /\ variant = "classify" /\ Len(arg.geometry.coordinates) = 2
  /\ \A j \in 1..Len(redZonesA) : ~ContainedA(arg.geometry.coordinates[1], j)
  /\ \E j \in 1..Len(redZonesE) : ContainedE(arg.geometry.coordinates[2], j)
  /\ ret.isRouteUnsafe = Some(TRUE) /\ ret.routeUnsafe = Some(TRUE)
  /\ ret.reversed # Null
  /\ ret.reversed[1].isRouteUnsafe /\ ret.reversed[1].routeUnsafe

\* --------------------------------------- specification: the distance functions
\* arg is a pair <<a, b>> of points <<lat, lon>>: every pair of sample
\* points and every pair of rounding points.  ret holds what
\* haversineDistance(a, b) and distance(a, b) returned, and swapped what
\* they returned for (b, a).

InitDistance ==
  /\ variant = "distance"
  /\ arg \in (GeoPoints \X GeoPoints) \cup (RoundingPoints \X RoundingPoints)
  /\ ret = [haversineDistance |-> Null, distance |-> Null, swapped |-> Null]
  /\ ui = NoUi /\ calls = <<>> /\ osrmLog = 0 /\ hist = NoHist

CallHaversineDistance ==
  /\ variant = "distance" /\ ret.haversineDistance = Null
  /\ ret' = [ret EXCEPT !.haversineDistance =
                Some(haversineDistance(arg[1][1], arg[1][2], arg[2][1], arg[2][2]))]
  /\ UNCHANGED <<variant, arg, ui, calls, osrmLog, hist>>

CallDistance ==
  /\ variant = "distance" /\ ret.distance = Null
  /\ ret' = [ret EXCEPT !.distance =
                Some(distance(arg[1][1], arg[1][2], arg[2][1], arg[2][2]))]
  /\ UNCHANGED <<variant, arg, ui, calls, osrmLog, hist>>

\* Both functions called with the two points exchanged.
CallSwapped ==
  /\ variant = "distance" /\ ret.swapped = Null
  /\ ret' = [ret EXCEPT !.swapped =
                Some([haversineDistance |->
                        haversineDistance(arg[2][1], arg[2][2], arg[1][1], arg[1][2]),
                      distance |->
                        distance(arg[2][1], arg[2][2], arg[1][1], arg[1][2])])]
  /\ UNCHANGED <<variant, arg, ui, calls, osrmLog, hist>>

NextDistance == CallHaversineDistance \/ CallDistance \/ CallSwapped

SpecDistance == InitDistance /\ [][NextDistance]_vars

\* C17: what haversineDistance and distance return is a number (not NaN)
\* that is not negative, and is 0 when the two points are the same.
C17_DistanceIsTotal ==
  variant = "distance" =>
    /\ ret.haversineDistance # Null =>
         /\ ret.haversineDistance[1] # NaN /\ ret.haversineDistance[1] >= 0
         /\ arg[1] = arg[2] => ret.haversineDistance[1] = 0
    /\ ret.distance # Null =>
         /\ ret.distance[1] # NaN /\ ret.distance[1] >= 0
         /\ arg[1] = arg[2] => ret.distance[1] = 0

\* C18: for each of the two functions, the value returned for (a, b) and the
\* value returned for (b, a) compare equal with == (which NaN never does).
C18_DistanceIsSymmetric ==
  (variant = "distance" /\ ret.swapped # Null) =>
    /\ ret.haversineDistance # Null =>
         /\ ret.haversineDistance[1] # NaN /\ ret.swapped[1].haversineDistance # NaN
         /\ ret.haversineDistance[1] = ret.swapped[1].haversineDistance
    /\ ret.distance # Null =>
         /\ ret.distance[1] # NaN /\ ret.swapped[1].distance # NaN
         /\ ret.distance[1] = ret.swapped[1].distance

\* C19: a route that has the centre of a zone among its vertices is
\* reported unsafe by the classifier that uses that zone list (routeUnsafe
\* with the 700 m / 500 m zones, isRouteUnsafe, and routeUnsafe of part_005).
C19_CentreVertexUnsafe ==
  LET cs == arg.geometry.coordinates
  IN  variant = "classify" =>
        /\ ( /\ ret.routeUnsafe # Null
             /\ \E i \in 1..Len(cs) : \E j \in 1..Len(redZonesE) :
                  cs[i] = <<redZonesE[j].lon, redZonesE[j].lat>> )
             => ret.routeUnsafe = Some(TRUE)
        /\ ( /\ ret.isRouteUnsafe # Null
             /\ \E i \in 1..Len(cs) : \E j \in 1..Len(redZonesA) :
                  cs[i] = <<redZonesA[j].coordinates[2], redZonesA[j].coordinates[1]>> )
             => ret.isRouteUnsafe = Some(TRUE)
        /\ ( /\ ret.routeUnsafeD # Null
             /\ \E i \in 1..Len(cs) : \E j \in 1..Len(redZonesD) :
                  cs[i] = <<redZonesD[j].lon, redZonesD[j].lat>> )
             => ret.routeUnsafeD = Some(TRUE)

\* C19 witness: the scenario route [(28.6139, 77.2090), (28.70, 77.30)],
\* whose first vertex is at distance 0 from the centre of the 700 m zone and
\* whose second vertex is outside every zone, has been reported unsafe by
\* routeUnsafe.
C19_Witness ==
  /\ variant = "classify"
  /\ arg = Route(<<LngLat(DelhiCentre), LngLat(ScenarioPoint)>>)
  /\ redZonesE[1] = [lat |-> "28.6139", lon |-> "77.209", radius |-> 700]
  /\ distance(DelhiCentre[1], DelhiCentre[2], redZonesE[1].lat, redZonesE[1].lon) = 0
  /\ \A j \in 1..Len(redZonesE) : ~ContainedE(LngLat(ScenarioPoint), j)
  /\ ret.routeUnsafe = Some(TRUE)

\* C20: the zone list of the browser changes only once, from the empty
\* list of the first render to the list the server holds; no request,
\* answer or user action changes it afterwards.  (The servers' lists are
\* constants of the handlers: redZonesA, redZonesB, redZonesD, redZonesE are
\* read by every handler step and written by none.)
C20_ZonesReadOnly ==
  [][ (variant \in {"A", "B"} /\ ui'.redZones # ui.redZones) =>
        /\ ui.redZones = <<>>
        /\ ui'.redZones = (IF variant = "A" THEN redZonesA ELSE redZonesB) ]_vars

\* C20 witness: the zones were loaded, and afterwards a route request was
\* issued, answered by the server and displayed, with the list still the
\* server's.
C20_Witness ==
  /\ variant = "A" /\ ui.redZones = redZonesA
  /\ hist.issued >= 1 /\ hist.shownFrom >= 1
  /\ ui.safeRoute # Null \/ ui.unsafeRoute # Null

\* ------------------------------- specification: start-up and GET /alerts
\* The process of src/website/Backend/backend.js.  arg is the content of the
\* alerts collection, a set of documents told apart by their timestamp; ret
\* is the process:
\*   pc                 "start" (run() awaits client.connect()), "listening"
\*                      (app.listen was called) or "exited" (process.exit(1))
\*   alertsCollection   the module variable, undefined until run() sets it
\*   pending            the /alerts requests whose handler waits at
\*                      await alertsCollection.find({}).sort(...).toArray()
\*   responses          the responses to the /alerts requests handled so far

InitAlerts ==
  /\ variant = "alerts"
  /\ arg \in SUBSET {[timestamp |-> t] : t \in 1..3}
  /\ ret = [pc |-> "start", alertsCollection |-> Null, pending |-> 0, responses |-> <<>>]
  /\ ui = NoUi /\ calls = <<>> /\ osrmLog = 0 /\ hist = NoHist

\* Mutant of run: app.listen is called after the try block, so the server
\* listens when the connection has failed.
run_ListensAnyway ==
  /\ variant = "alerts" /\ ret.pc = "start"
  /\ \E connected \in BOOLEAN :
       ret' = IF connected
              THEN [ret EXCEPT !.pc = "listening", !.alertsCollection = Some("alerts")]
              ELSE [ret EXCEPT !.pc = "listening"]
  /\ UNCHANGED <<variant, arg, ui, calls, osrmLog, hist>>

\* run(), lines 22-38: await client.connect() resolves, alertsCollection is
\* set and app.listen is called; or something in the try block throws and
\* the catch block calls process.exit(1).
run ==
  /\ variant = "alerts" /\ ret.pc = "start"
  /\ \E connected \in BOOLEAN :
       ret' = IF connected
              THEN [ret EXCEPT !.pc = "listening", !.alertsCollection = Some("alerts")]
              ELSE [ret EXCEPT !.pc = "exited"]
  /\ UNCHANGED <<variant, arg, ui, calls, osrmLog, hist>>

\* app.get("/alerts"), lines 93-105, in its two turns.  A request the
\* listening server accepts is answered 503 at once when alertsCollection is
\* unset; else the query is started and the handler waits for it, while
\* other requests are accepted.  When the query settles the handler answers
\* with the documents sorted by timestamp, newest first, or with 500 when
\* the query throws.
HandleAlerts ==
  /\ variant = "alerts" /\ ret.pc = "listening"
  /\ \/ /\ ret.pending + Len(ret.responses) < MaxAlertRequests
        /\ ret' = IF ret.alertsCollection = Null
                  THEN [ret EXCEPT !.responses =
                          Append(@, [http |-> 503, error |-> "Database not connected",
                                     alerts |-> <<>>])]
                  ELSE [ret EXCEPT !.pending = @ + 1]
     \/ /\ ret.pending > 0
        /\ \E findThrows \in BOOLEAN :
             LET alerts == CHOOSE docs \in [1..Cardinality(arg) -> arg] :
                             \A i, j \in 1..Cardinality(arg) :
                                i < j => docs[i].timestamp > docs[j].timestamp
                 res == IF findThrows
                        THEN [http |-> 500,
                              error |-> "Failed to fetch alerts from database.",
                              alerts |-> <<>>]
                        ELSE [http |-> 200, error |-> "", alerts |-> alerts]
             IN  ret' = [ret EXCEPT !.pending = @ - 1, !.responses = Append(@, res)]
  /\ UNCHANGED <<variant, arg, ui, calls, osrmLog, hist>>

NextAlerts == run \/ HandleAlerts

SpecAlerts == InitAlerts /\ [][NextAlerts]_vars

\* C21: a request is handled only by a process that is listening, and a
\* listening process has its alerts collection set: no response is the 503
\* of an unset collection, and a process that exited has accepted and
\* handled nothing.
C21_ListensOnlyWhenConnected ==
  variant = "alerts" =>
    /\ ret.pc = "listening" => ret.alertsCollection # Null
    /\ (ret.responses # <<>> \/ ret.pending > 0)
          => (ret.pc = "listening" /\ ret.alertsCollection # Null)
    /\ \A k \in 1..Len(ret.responses) : ret.responses[k].http # 503
    /\ ret.pc = "exited"
          => (ret.responses = <<>> /\ ret.pending = 0 /\ ret.alertsCollection = Null)

\* C21 witness: after a successful connection the server has answered an
\* /alerts request with the three stored alerts, newest first, while the
\* handler of another request waits for its query.
C21_Witness ==
  /\ variant = "alerts" /\ ret.pc = "listening" /\ ret.alertsCollection # Null
  /\ ret.pending > 0
  /\ \E k \in 1..Len(ret.responses) :
        /\ ret.responses[k].http = 200
        /\ ret.responses[k].alerts = <<[timestamp |-> 3], [timestamp |-> 2], [timestamp |-> 1]>>

\* C22: an initial route request (/api/route of variant A, /route of
\* variants D and E) that is answered with a route had the classifier called
\* once, on data.routes[0]; the verdict of the response is unsafe exactly
\* when routes[0] has a vertex inside a zone, whatever the other routes
\* are; a provider answer with routes is always answered with a verdict;
\* and the handler sends one response: none while it waits, one once it
\* has answered.
C22_ClassifierRunsOnceOnPrimary ==
  \A i \in 1..Len(calls) :
     LET c == calls[i]
         usable == /\ c.osrm.kind = "data" /\ c.osrm.hasRoutes /\ Len(c.osrm.routes) > 0
                   /\ c.v = "A" => c.osrm.code = "Ok"
     IN  /\ c.sends = (IF c.stage = "answered" THEN 1 ELSE 0)
         /\ (c.stage = "answered" /\ c.queried /\ c.ep \in {"/api/route", "/route"}
            /\ c.v \in {"A", "D", "E"}) =>
           /\ usable <=> c.res.http = 200
           /\ usable =>
                /\ c.res.ran = <<1>>
                /\ c.res.body.hasRoute /\ c.res.body.route = c.osrm.routes
                /\ c.v = "A" =>
                     /\ c.res.body.status \in {"safe", "unsafe"}
                     /\ c.res.body.status = "unsafe" <=> ~NoVertexContainedA(c.osrm.routes[1])
                /\ c.v = "D" => (c.res.body.unsafe <=> ~NoVertexContainedD(c.osrm.routes[1]))
                /\ c.v = "E" => (c.res.body.unsafe <=> ~NoVertexContainedE(c.osrm.routes[1]))

\* C22 witness: the provider's first route is outside every zone and its
\* second goes through the Delhi centre; /api/route called the classifier
\* once and answered "safe".
C22_Witness ==
  \E i \in 1..Len(calls) :
     /\ calls[i].stage = "answered" /\ calls[i].v = "A" /\ calls[i].ep = "/api/route"
     /\ calls[i].osrm.kind = "data" /\ calls[i].osrm.code = "Ok"
     /\ calls[i].osrm.routes = <<rFar, rDelhi>>
     /\ isRouteUnsafe(rDelhi)
     /\ calls[i].res.body.status = "safe" /\ calls[i].res.ran = <<1>>
     /\ calls[i].sends = 1

\* C23: in the single-polyline browsers (variants D and E), whenever a
\* route is displayed the unsafe flag shown with it is the verdict of the
\* server for that same route: the classifier of the variant's server,
\* applied to the displayed vertices taken back to [lon, lat], gives the
\* flag. It holds across overlapping requests and after Accept Unsafe Route.
C23_FlagIsVerdictOfDisplayedRoute ==
  (variant \in {"D", "E"} /\ ui.route # Null) =>
     LET shown == ui.route[1]
         served == [geometry |-> [coordinates |->
                      [k \in 1..Len(shown) |-> <<shown[k][2], shown[k][1]>>]]]
     IN  ui.unsafeRoute = IF variant = "D" THEN routeUnsafeD(served)
                          ELSE routeUnsafe(served)

\* C23 witness: variant E displays an accepted unsafe route while a later
\* request, which reset the flag when it started, is still in flight.
C23_Witness ==
  /\ variant = "E" /\ ui.route # Null /\ ui.unsafeRoute /\ ui.showAlertsPanel
  /\ Len(calls) > 0 /\ ui.isLoading

\* C24: in the two-polyline browser (variant A) at most one of safeRoute
\* and unsafeRoute is non-null in every reachable state, whatever requests
\* are in flight and in whatever order their responses arrive.
C24_AtMostOnePolyline ==
  variant = "A" => (ui.safeRoute = Null \/ ui.unsafeRoute = Null)

\* C25: the unsafe-route prompt is visible only while the route it refers
\* to is on display: while the modal of variant A is shown, unsafeRoute
\* holds a route; while the prompt of variant E is shown, the displayed
\* route is the pending one and is flagged unsafe. Starting a new route
\* request therefore has to hide the prompt.
C25_PromptRefersToDisplayedRoute ==
  /\ (variant = "A" /\ ui.showModal) => ui.unsafeRoute # Null
  /\ (variant = "E" /\ ui.showUnsafePrompt) =>
        /\ ui.pendingRoute # Null
        /\ ui.route = Some(formatCoords(ui.pendingRoute[1].data.route))
        /\ ui.unsafeRoute

\* C26: when Accept Unsafe Route runs in variant E with a pending route,
\* the route it installs is that of the latest completed route request:
\* the pending route comes from the response that was displayed last, never
\* from an earlier request that a later answer has superseded.
C26_AcceptInstallsLatestRoute ==
  [][(E_handleAcceptUnsafe /\ ui.pendingRoute # Null)
        => ui.pendingRoute[1].id = hist.shownFrom]_vars

\* C27: the loading indicator follows the requests: isLoading is false once
\* every issued route or reroute request has completed (answered, answered
\* with an error, or failed), and isLoading is true whenever at least one
\* request is still in flight.
C27_LoadingFollowsRequests ==
  variant \in {"A", "D", "E"} =>
     (ui.isLoading <=> \E i \in 1..Len(calls) : calls[i].open)

\* ---------------------- specification: vehicle animation and red-zone log
\* The two effects of MapComponent in src/unnamed/part_001 (variant "navD"),
\* of the first MapComponent of src/unnamed/part_002 (variant "navE") and of
\* the second MapComponent of src/unnamed/part_002 (variant "navE2"), with
\* the handlers that change what they depend on.  ret holds the component:
\* route, navRunning, vehiclePos and logs are its state, logCooldown and
\* redZoneTimer its refs, intervals the setInterval timers that are active
\* (each with the route and the counter i of its closure, cur, whether that
\* route is the array the state holds, and pos, whether vehiclePos is an
\* element of that array), own whether the last of them
\* is the one the cleanup of the animation effect clears, alerts the number
\* of alert(...) calls of the 10 s timeout, and analyses the requests to
\* /analyze-test that are under way.  redZoneTimer is "null", or the handle
\* of a timeout that is "pending" or has "fired".  posIdx is the index that
\* vehiclePos has in the array it was taken from (0 when it is null), and
\* posCur whether that array is the one the state holds as route:
\* setVehiclePos with the object the state already holds renders nothing.
\*
\* A state change is committed first and the effects that depend on it run
\* later: animDirty and zoneDirty say that the animation effect (and its
\* cleanup) and the red zone effect are still to run.  They run at some
\* moment after the commit, and at the latest before the next state change
\* is rendered; how soon depends on the version of React and on the kind of
\* event, so every moment in between is possible.  Until the cleanup runs,
\* the interval of the last run is still active.  An effect that runs at the
\* start of a render queues its setLogs behind the updates that caused the
\* render.
\*
\* trail, dwell and stayAlerts are history: the vertices the position took
\* since route or navRunning last changed, whether every position since the
\* timeout was set lay inside a zone with the vehicle still shown, and the
\* alerts of the present stay.

MaxLogs == 4

MaxNavAlerts == 2

\* Routes as setRoute receives them: [lat, lng] vertices.
NavRoutes == {<<FarAway, DelhiCentre, FarAway>>, <<DelhiCentre, NearDelhi>>, <<FarAway>>}

\* redZones.some(zone => dist < zone.radius), dist being
\* 111000 * sqrt((lat - zone.lat)^2 + ((lng - zone.lon) * cos(zone.lat))^2)
\* in binary64, here in millimetres for the vertices of NavRoutes.
Nav_inside(pos) ==
  LET zones == IF variant = "navD" THEN redZonesD ELSE redZonesE
      dist(j) == IF pos = DelhiCentre THEN (IF j = 1 THEN 0 ELSE 418886419)
                 ELSE IF pos = NearDelhi THEN (IF j = 1 THEN 4895100 ELSE 421200940)
                 ELSE (IF j = 1 THEN 35082433 ELSE 404343927)
  IN  \E j \in 1..Len(zones) : dist(j) < Metres(zones[j].radius)

\* The vehicle animation effect runs again: the cleanup of its last run
\* (clearInterval(interval)), then, unless !route (|| !navRunning), a new
\* interval with i = 0 (kept here as the index 1 of the next vertex).
Nav_animationEffect(s) ==
  LET kept == IF s.own THEN SubSeq(s.intervals, 1, Len(s.intervals) - 1)
              ELSE s.intervals
  IN  IF s.route # Null /\ s.navRunning
      THEN [s EXCEPT !.intervals = Append(kept, [route |-> s.route[1], i |-> 1,
                                                 cur |-> TRUE, pos |-> s.posCur]),
                     !.own = TRUE]
      ELSE [s EXCEPT !.intervals = kept, !.own = FALSE]

\* The red zone effect for a position that is not null.
Nav_redZoneEffect(s, pos) ==
  LET isInside == Nav_inside(pos)
      entered == isInside /\ ~s.logCooldown
      exited == ~isInside /\ s.redZoneTimer # "null"
  IN  [s EXCEPT
         !.logs = IF entered THEN Append(@, "ENTER")
                  ELSE IF exited THEN Append(@, "EXIT") ELSE @,
         !.logCooldown = IF entered THEN TRUE ELSE @,
         !.redZoneTimer = IF entered /\ @ = "null" THEN "pending"
                          ELSE IF exited THEN "null" ELSE @,
         !.dwell = IF ~isInside THEN FALSE
                   ELSE IF entered /\ s.redZoneTimer = "null" THEN TRUE ELSE @,
         !.stayAlerts = IF ~isInside THEN 0 ELSE @]

\* The effects that are still to run, in the order of their useEffect
\* calls: the animation effect if route or navRunning changed, the red
\* zone effect if vehiclePos changed (it returns at once for null).
Nav_runEffects(s) ==
  LET a == IF s.animDirty THEN [Nav_animationEffect(s) EXCEPT !.animDirty = FALSE]
           ELSE s
      z == IF a.zoneDirty /\ a.vehiclePos # Null
           THEN Nav_redZoneEffect(a, a.vehiclePos[1]) ELSE a
  IN  [z EXCEPT !.zoneDirty = FALSE]

InitNav ==
  /\ variant \in {"navD", "navE", "navE2"}
  /\ ret = [route |-> Null, navRunning |-> (variant # "navE"), vehiclePos |-> Null,
            posIdx |-> 0, posCur |-> FALSE, logs |-> <<>>, showAlertsPanel |-> FALSE,
            logCooldown |-> FALSE, redZoneTimer |-> "null",
            intervals |-> <<>>, own |-> FALSE, alerts |-> 0, analyses |-> 0,
            animDirty |-> FALSE, zoneDirty |-> FALSE,
            trail |-> <<>>, dwell |-> FALSE, stayAlerts |-> 0]
  /\ arg = Null /\ ui = NoUi /\ calls = <<>> /\ osrmLog = 0 /\ hist = NoHist

\* setRoute(null) and setRoute(formatRoute(data.route)) of fetchRoute, and
\* with accepted the setRoute(formatRoute(pendingRoute.route)) of
\* handleAcceptUnsafe, which in the first component of part_002 also opens
\* the alerts panel and in the second one goes on to POST /analyze-test.
\* formatRoute makes a new array each time.  part_001 has no navRunning:
\* its effect tests !route only.
Nav_setRoute(r, accepted) ==
  /\ variant \in {"navD", "navE", "navE2"}
  /\ accepted => (variant # "navD" /\ r # Null)
  /\ (accepted /\ variant = "navE2")
        => Len(ret.logs) + (IF ret.zoneDirty THEN 1 ELSE 0) + ret.analyses < MaxLogs
  /\ LET s == Nav_runEffects(ret)
     IN  ret' = IF r = Null /\ ret.route = Null THEN s
                ELSE [s EXCEPT
                        !.route = r, !.animDirty = TRUE, !.trail = <<>>,
                        !.posCur = FALSE,
                        !.intervals = [k \in DOMAIN @ |-> [@[k] EXCEPT !.cur = FALSE]],
                        !.showAlertsPanel = IF accepted /\ variant = "navE"
                                            THEN TRUE ELSE @,
                        !.analyses = IF accepted /\ variant = "navE2"
                                     THEN @ + 1 ELSE @]
  /\ UNCHANGED <<variant, arg, ui, calls, osrmLog, hist>>

\* The button Start Navigation of the first component of part_002,
\* setNavRunning(true), disabled={!route}; and the button Stop Navigation /
\* Resume Navigation of the second, setNavRunning(!navRunning), which keeps
\* vehiclePos and logs.
Nav_setNavRunning ==
  /\ variant \in {"navE", "navE2"}
  /\ variant = "navE" => ret.route # Null
  /\ LET s == Nav_runEffects(ret)
         running == IF variant = "navE" THEN TRUE ELSE ~ret.navRunning
     IN  ret' = IF running = ret.navRunning THEN ret
                ELSE [s EXCEPT !.navRunning = running, !.animDirty = TRUE,
                               !.trail = <<>>]
  /\ UNCHANGED <<variant, arg, ui, calls, osrmLog, hist>>

\* handleStopNavigation of the first component of part_002.  Its DELETE
\* /reset-alerts goes to the alert store, of which this component keeps
\* nothing.  Effects that are still to run either ran before the click was
\* handled, and setLogs([]) removes what they logged, or run at the start
\* of the render that the handler causes, and their setLogs(l => [...l, e])
\* is applied after setLogs([]).
Nav_handleStopNavigation ==
  /\ variant = "navE"
  /\ \E effectsFirst \in BOOLEAN :
     LET s == Nav_runEffects(ret)
     IN  ret' = [s EXCEPT !.navRunning = FALSE, !.vehiclePos = Null, !.posIdx = 0,
                          !.posCur = FALSE,
                          !.intervals = [k \in DOMAIN @ |-> [@[k] EXCEPT !.pos = FALSE]],
                          !.logs = IF effectsFirst THEN <<>>
                                   ELSE SubSeq(s.logs, Len(ret.logs) + 1, Len(s.logs)),
                          !.showAlertsPanel = FALSE,
                          !.animDirty = ret.navRunning,
                          !.zoneDirty = (ret.vehiclePos # Null),
                          !.trail = <<>>, !.dwell = FALSE, !.stayAlerts = 0]
  /\ UNCHANGED <<variant, arg, ui, calls, osrmLog, hist>>

\* The callback of the k-th active interval: setVehiclePos(route[i]); i++
\* while i < route.length (navRunning is the true of its closure),
\* clearInterval(interval) otherwise.  The effects still to run come before
\* the new position is rendered; when route[i] is the object that vehiclePos
\* already is, nothing is rendered and they stay to run.
Nav_intervalTick(k) ==
  /\ variant \in {"navD", "navE", "navE2"} /\ k \in 1..Len(ret.intervals)
  /\ LET iv == ret.intervals[k]
         more == iv.i <= Len(iv.route)
         same == ret.vehiclePos # Null /\ iv.pos /\ ret.posIdx = iv.i
         counted == [ret EXCEPT !.intervals[k].i = @ + 1]
         s == Nav_runEffects(counted)
     IN  /\ (more /\ ~same)
            => Len(ret.logs) + (IF ret.zoneDirty THEN 1 ELSE 0) + ret.analyses < MaxLogs
         /\ ret' = IF ~more
                   THEN [ret EXCEPT !.intervals = RemoveAt(@, k),
                                    !.own = IF k = Len(ret.intervals) THEN FALSE ELSE @]
                   ELSE IF same
                   THEN [counted EXCEPT !.trail = Append(@, iv.route[iv.i])]
                   ELSE [s EXCEPT
                           !.vehiclePos = Some(iv.route[iv.i]),
                           !.posIdx = iv.i,
                           !.posCur = iv.cur,
                           !.intervals =
                              [j \in DOMAIN s.intervals |->
                                 [s.intervals[j] EXCEPT
                                    !.pos = \/ ~ret.animDirty /\ j = k
                                            \/ s.intervals[j].cur /\ iv.cur
                                            \/ s.intervals[j].pos /\ iv.pos]],
                           !.zoneDirty = TRUE,
                           !.trail = Append(@, iv.route[iv.i]),
                           !.dwell = IF Nav_inside(iv.route[iv.i]) THEN @ ELSE FALSE,
                           !.stayAlerts = IF Nav_inside(iv.route[iv.i]) THEN @ ELSE 0]
  /\ UNCHANGED <<variant, arg, ui, calls, osrmLog, hist>>

\* The effects that are still to run, run.
Nav_flushEffects ==
  /\ variant \in {"navD", "navE", "navE2"}
  /\ ret.animDirty \/ ret.zoneDirty
  /\ ret' = Nav_runEffects(ret)
  /\ UNCHANGED <<variant, arg, ui, calls, osrmLog, hist>>

\* POST /analyze-test of handleAcceptUnsafe of the second component of
\* part_002 returns: a log entry of the assessment, or of the error.  In
\* the catch block setLogs is the first update, so the entry of an effect
\* that is still to run comes behind it; on success setLoiteringData comes
\* first, and the effect's entry comes before the assessment when that
\* update is rendered by itself, behind it when the updates are batched.
Nav_analysisReturns(ok) ==
  /\ variant = "navE2" /\ ret.analyses > 0
  /\ \E effectsFirst \in BOOLEAN :
     LET s == Nav_runEffects(ret)
         entry == IF ok THEN "DETECTION" ELSE "DETECTION_ERROR"
         logged == SubSeq(s.logs, Len(ret.logs) + 1, Len(s.logs))
     IN  /\ effectsFirst => ok
         /\ ret' = [s EXCEPT
                      !.logs = IF effectsFirst THEN Append(@, entry)
                               ELSE Append(ret.logs, entry) \o logged,
                      !.analyses = @ - 1]
  /\ UNCHANGED <<variant, arg, ui, calls, osrmLog, hist>>

\* setTimeout(() => { logCooldown.current = false }, 2000) runs.
Nav_cooldownExpires ==
  /\ variant \in {"navD", "navE", "navE2"} /\ ret.logCooldown
  /\ ret' = [ret EXCEPT !.logCooldown = FALSE]
  /\ UNCHANGED <<variant, arg, ui, calls, osrmLog, hist>>

\* The 10 s timeout runs: alert(...).  redZoneTimer.current keeps the handle.
Nav_timerFires ==
  /\ variant \in {"navD", "navE", "navE2"} /\ ret.redZoneTimer = "pending"
  /\ ret.alerts < MaxNavAlerts
  /\ ret' = [ret EXCEPT !.redZoneTimer = "fired", !.alerts = @ + 1,
                        !.stayAlerts = @ + 1]
  /\ UNCHANGED <<variant, arg, ui, calls, osrmLog, hist>>

NextNav ==
  \/ \E r \in {Null} \cup {Some(x) : x \in NavRoutes} : Nav_setRoute(r, FALSE)
  \/ \E x \in NavRoutes : Nav_setRoute(Some(x), TRUE)
  \/ Nav_setNavRunning
  \/ Nav_handleStopNavigation
  \/ \E k \in 1..Len(ret.intervals) : Nav_intervalTick(k)
  \/ Nav_flushEffects
  \/ \E ok \in BOOLEAN : Nav_analysisReturns(ok)
  \/ Nav_cooldownExpires
  \/ Nav_timerFires

SpecNav == InitNav /\ [][NextNav]_vars

\* C28: once a route is set and navigation is running, the vehicle
\* position takes the vertices of that route in order from the first, one
\* per tick with none skipped or repeated; the interval is gone only after
\* the last vertex; and replacing the route (or stopping and starting
\* navigation) cancels the old interval when the animation effect runs
\* again, so at most one interval is ever active, the animation starts
\* from the first vertex of the new route, and no position is taken from
\* another route, or while no route is set or navigation is stopped.
C28_AnimationFollowsRoute ==
  /\ Len(ret.intervals) <= 1
  /\ ret.trail # <<>> =>
        /\ ret.route # Null /\ ret.navRunning
        /\ Len(ret.trail) <= Len(ret.route[1])
        /\ ret.trail = SubSeq(ret.route[1], 1, Len(ret.trail))
        /\ ret.vehiclePos = Some(ret.trail[Len(ret.trail)])
  /\ ~ret.animDirty =>
        /\ \A k \in 1..Len(ret.intervals) :
              /\ ret.route # Null /\ ret.navRunning
              /\ ret.intervals[k].route = ret.route[1]
              /\ ret.intervals[k].i = Len(ret.trail) + 1
        /\ (ret.route # Null /\ ret.navRunning /\ ret.intervals = <<>>)
              => ret.trail = ret.route[1]

\* C29: in the visible red-zone log every EXIT entry is preceded by an
\* ENTER entry with no other EXIT between them, after any sequence of
\* position updates, cooldown expiries, timer firings and stop/start
\* navigation actions.
C29_ExitFollowsEnter ==
  \A k \in 1..Len(ret.logs) :
     ret.logs[k] = "EXIT" =>
        \E j \in 1..(k - 1) :
           /\ ret.logs[j] = "ENTER"
           /\ \A m \in (j + 1)..(k - 1) : ret.logs[m] # "EXIT"

\* C30: the 10-second alert fires only if every position update since the
\* dwell timer was started lay inside a zone and the vehicle is still
\* tracked (leaving the zone or stopping navigation cancels the timer),
\* and at most once per continuous stay inside a zone.
C30_AlertOnlyAfterContinuousStay ==
  [][(ret'.alerts > ret.alerts)
        => /\ ret.vehiclePos # Null /\ Nav_inside(ret.vehiclePos[1])
           /\ ret.dwell
           /\ ret.stayAlerts = 0]_vars

====
